---- MODULE Spec2Model ----
(***************************************************************************)
(* Donor-Rewards-Bot: the tip.cc donation pipeline (events/messageCreate)  *)
(* and the admin commands that act on the same per-guild document          *)
(* (commands/admin), modelled as a state machine over the guild document   *)
(* {users, donationDraws, config} plus the Discord-side role cache.        *)
(*                                                                         *)
(* Amounts are whole USD units.  JavaScript's Infinity (Math.floor(v / 0)) *)
(* is kept as the value Infinity with saturating addition.  A key missing  *)
(* from an entries map and a key holding 0 are the same value here: no     *)
(* code path distinguishes them.                                           *)
(***************************************************************************)
EXTENDS Integers, Sequences, FiniteSets, TLC

VARIABLES
    users,          \* db.users: user id -> user record (DOMAIN = existing records)
    donationDraws,  \* db.donationDraws: draw id -> draw record
    config,         \* db.config
    memberRoles,    \* Discord side: member id -> roles held (member.roles.cache)
    now,            \* Date.now()
    last,           \* what the handler that ran last did (observation only)
    watched,        \* the handlers whose runs are observed in last (never changes)
    pending         \* handlers suspended at an await, with what they hold

vars == <<users, donationDraws, config, memberRoles, now, last, watched, pending>>

----------------------------------------------------------------------------
(* Bounds of the model *)

MaxTime == 2          \* the clock runs over 1..MaxTime
MaxDraws == 2         \* draws kept in donationDraws
MaxDonations == 1     \* donation records kept in the whole guild
MaxWins == 1          \* winners selected in the whole guild
MaxRecipients == 2    \* entries of config.allowedRecipients
MaxPending == 1       \* handlers suspended at an await at one time
MaxHeld == 2          \* entries a user record holds for an id that create_draw reuses

----------------------------------------------------------------------------
(* Values *)

NULL == -1            \* null / undefined option or field
NaN == -3             \* Number.parseFloat of a token no number can be read from
AUTO == 0             \* selectedDraw = 'auto'
Infinity == 1000000000
DefaultMaxAmount == 1000000
OneDayMs == 1         \* 24 h, in clock ticks (one tick of the model clock = 24 h)

Members == {"u1", "u2"}               \* members of the guild
NoUser == "none"                      \* draw.winner unset / member not found
VipRole == "vip"
NoRole == "norole"

DrawIds == 1..MaxTime                 \* draw id = draw_<Date.now()>

Truthy(x) == x # NULL /\ x # 0 /\ x # NaN

Min(a, b) == IF a <= b THEN a ELSE b

\* a + b on JavaScript numbers that may be Infinity
Plus(a, b) == IF a >= Infinity \/ b >= Infinity THEN Infinity ELSE a + b

RECURSIVE SumOver(_, _)
SumOver(f, S) ==
    IF S = {} THEN 0
    ELSE LET x == CHOOSE y \in S : TRUE IN Plus(f[x], SumOver(f, S \ {x}))

\* Object.values(draw.entries || {}).reduce((sum, count) => sum + count, 0)
TotalEntries(draw) == SumOver(draw.entries, DOMAIN draw.entries)

----------------------------------------------------------------------------
(* Strings: a string is a sequence of one-character strings *)

Markup == {"@", "<", ">", "!"}

\* s.replace(/[@<>!]/g, '')
Clean(s) == SelectSeq(s, LAMBDA c : c \notin Markup)

\* currency.toUpperCase(), on the currency tokens of the model
ToUpperCase(c) == IF c = "ltc" THEN "LTC" ELSE c

\* CONFIG.DEFAULT_ACCEPTED_CRYPTOCURRENCIES (config.js), as far as the model's tokens go
DefaultAccepted == {"LTC"}

Bob == <<"b">>                       \* a recipient as a message names it
Eve == <<"e">>
BobMention == <<"<", "@", "b", ">">>  \* the same recipient as add_recipient is given it
Bobby == <<"b", "y">>                \* a name that contains the name of Bob
BigBob == <<"B">>                    \* the name of Bob in another case

\* an entry of config.allowedRecipients: a string, or a corrupted non-string value
StringEntry(s) == [isString |-> TRUE, text |-> s]

\* an object found in config.allowedRecipients, holding s as its name
ObjectEntry(s) == [isString |-> FALSE, text |-> s]

\* recipient.trim(), on strings whose only whitespace is " "
RECURSIVE Trim(_)
Trim(s) ==
    IF Len(s) = 0 THEN s
    ELSE IF s[1] = " " THEN Trim(Tail(s))
    ELSE IF s[Len(s)] = " " THEN Trim(SubSeq(s, 1, Len(s) - 1))
    ELSE s

\* isAllowedRecipient without `if (typeof allowed !== 'string') return false`
isAllowedRecipientOfAnyType(allowedRecipients, recipient) ==
    \E i \in 1..Len(allowedRecipients) :
        Clean(allowedRecipients[i].text) = Clean(recipient)

\* allowedRecipients.some(allowed => typeof allowed === 'string' && clean(allowed) === clean(recipient))
isAllowedRecipient(allowedRecipients, recipient) ==
    \E i \in 1..Len(allowedRecipients) :
        /\ allowedRecipients[i].isString
        /\ Clean(allowedRecipients[i].text) = Clean(recipient)

\* Array.prototype.includes / indexOf on a sequence
Includes(seq, x) == \E i \in 1..Len(seq) : seq[i] = x

IndexOf(seq, x) == IF Includes(seq, x) THEN CHOOSE i \in 1..Len(seq) :
                          seq[i] = x /\ \A j \in 1..(i - 1) : seq[j] # x
                   ELSE 0

\* seq.splice(i, 1)
RemoveAt(seq, i) == [j \in 1..(Len(seq) - 1) |-> IF j < i THEN seq[j] ELSE seq[j + 1]]

----------------------------------------------------------------------------
(* Records *)

NoEntries == [d \in DrawIds |-> 0]
NoLedger == [u \in Members |-> 0]

\* the record handleTipccDonation creates; handleSelectWinner and
\* handleAssignEntries create the same record without streaks, which every
\* reader treats like the empty streak (updateDonationStreak fills it in)
NewUser ==
    [totalDonated |-> 0, entries |-> NoEntries, donations |-> <<>>,
     achievements |-> <<>>, wins |-> 0,
     streaks |-> [current |-> 0, longest |-> 0, lastDonation |-> NULL],
     selectedDraw |-> NULL]

\* users with the record of u made sure to exist
WithUser(us, u) == IF u \in DOMAIN us THEN us ELSE (u :> NewUser) @@ us

----------------------------------------------------------------------------
(* Reward engine *)

\* updateDonationStreak without the 48-hour branch that keeps the streak
updateDonationStreakWithoutGrace(streaks, t) ==
    LET elapsed == t - streaks.lastDonation
        current ==
            IF streaks.lastDonation # NULL /\ streaks.lastDonation # 0
            THEN (IF elapsed <= OneDayMs THEN streaks.current + 1 ELSE 1)
            ELSE 1
    IN [current |-> current,
        longest |-> IF current > streaks.longest THEN current ELSE streaks.longest,
        lastDonation |-> t]

\* updateDonationStreak with longest set to current on every donation
updateDonationStreakLongestReset(streaks, t) ==
    LET elapsed == t - streaks.lastDonation
        current ==
            IF streaks.lastDonation # NULL /\ streaks.lastDonation # 0
            THEN (IF elapsed <= OneDayMs THEN streaks.current + 1
                  ELSE IF elapsed <= 2 * OneDayMs THEN streaks.current
                  ELSE 1)
            ELSE 1
    IN [current |-> current, longest |-> current, lastDonation |-> t]

\* updateDonationStreak(userData), at time t
updateDonationStreak(streaks, t) ==
    LET elapsed == t - streaks.lastDonation
        current ==
            IF streaks.lastDonation # NULL /\ streaks.lastDonation # 0
            THEN (IF elapsed <= OneDayMs THEN streaks.current + 1
                  ELSE IF elapsed <= 2 * OneDayMs THEN streaks.current
                  ELSE 1)
            ELSE 1
    IN [current |-> current,
        longest |-> IF current > streaks.longest THEN current ELSE streaks.longest,
        lastDonation |-> t]

\* the ACHIEVEMENTS catalog, in the order the handlers list its keys
AchievementKeys ==
    <<"first_steps", "generous_donor", "big_spender", "whale",
      "streak_master", "community_pillar", "lucky_winner">>

\* the switch with every threshold of the total read as > instead of >=
EarnedAboveThreshold(key, userData) ==
    CASE key = "first_steps" -> userData.totalDonated > 0
      [] key = "generous_donor" -> userData.totalDonated > 100
      [] key = "big_spender" -> userData.totalDonated > 500
      [] key = "whale" -> userData.totalDonated > 1000
      [] key = "streak_master" -> userData.streaks.current >= 7
      [] key = "community_pillar" -> 0 >= 3
      [] key = "lucky_winner" -> userData.wins > 0
      [] OTHER -> FALSE

\* the switch of checkAndAssignAchievements (2421-2445); no handler writes a
\* top-level referredBy, so the referral count is 0
Earned(key, userData) ==
    CASE key = "first_steps" -> userData.totalDonated > 0
      [] key = "generous_donor" -> userData.totalDonated >= 100
      [] key = "big_spender" -> userData.totalDonated >= 500
      [] key = "whale" -> userData.totalDonated >= 1000
      [] key = "streak_master" -> userData.streaks.current >= 7
      [] key = "community_pillar" -> 0 >= 3
      [] key = "lucky_winner" -> userData.wins > 0
      [] OTHER -> FALSE

\* the keys pushed without `if (userData.achievements.includes(key)) continue`
NewAchievementsUnchecked(userData) ==
    SelectSeq(AchievementKeys, LAMBDA k : Earned(k, userData))

\* the keys checkAndAssignAchievements pushes, in catalog order
NewAchievements(userData) ==
    SelectSeq(AchievementKeys,
              LAMBDA k : ~Includes(userData.achievements, k) /\ Earned(k, userData))

\* is there a channel named *general* or *chat* to congratulate in
HasChatChannel == TRUE

\* the outbound Discord call that throws in one run of the donation handler:
\* member.roles.remove, member.roles.add, the congratulation, an achievement
\* notice or the confirmation; "none" when every call succeeds
Faults == {"none", "remove", "add", "congratulate", "achievement", "confirmation"}

\* checkAndAssignAchievements with each key pushed only once its notice is sent
checkAndAssignAchievementsPushOnSend(userData, fault) ==
    LET unlocked == NewAchievements(userData)
        throws == fault = "achievement" /\ Len(unlocked) > 0 /\ HasChatChannel
    IN [userData |-> IF throws THEN userData
                     ELSE [userData EXCEPT !.achievements = @ \o unlocked],
        sent |-> IF HasChatChannel /\ ~throws THEN Len(unlocked) ELSE 0,
        raised |-> throws]

\* checkAndAssignAchievements(member, userData, db): the user record
\* afterwards (every key is pushed before the first notice is sent), the
\* number of notices sent, and whether the first notice threw into the catch
\* of checkAndAssignAchievements
checkAndAssignAchievements(userData, fault) ==
    LET unlocked == NewAchievements(userData)
        throws == fault = "achievement" /\ Len(unlocked) > 0 /\ HasChatChannel
    IN [userData |-> [userData EXCEPT !.achievements = @ \o unlocked],
        sent |-> IF HasChatChannel /\ ~throws THEN Len(unlocked) ELSE 0,
        raised |-> throws]

\* config.donorRoles is kept as the sequence Object.entries walks:
\* records [id, minAmount, maxAmount]
MaxOf(S) == IF S = {} THEN 0 ELSE CHOOSE x \in S : \A y \in S : y <= x

\* the tier assignDonorRoles finds for newTotal: 0 when none, else its index
NewRoleIndex(donorRoles, newTotal) ==
    LET fits == {i \in 1..Len(donorRoles) :
                    /\ newTotal >= donorRoles[i].minAmount
                    /\ (~Truthy(donorRoles[i].maxAmount) \/ newTotal <= donorRoles[i].maxAmount)
                    /\ donorRoles[i].minAmount > 0}
        best == MaxOf({donorRoles[i].minAmount : i \in fits})
    IN IF fits = {} THEN 0
       ELSE CHOOSE i \in fits : /\ donorRoles[i].minAmount = best
                                /\ \A j \in fits : donorRoles[j].minAmount = best => i <= j

\* the held tier of greatest minAmount: its minAmount, 0 when currentRole stays null
CurrentRoleValue(donorRoles, roles) ==
    MaxOf({donorRoles[i].minAmount : i \in {j \in 1..Len(donorRoles) :
                                              donorRoles[j].id \in roles}})

\* assignDonorRoles(member, newTotal, oldTotal): the roles the member holds
\* afterwards, the number of messages sent and whether the call named by
\* fault was made and threw into the catch of assignDonorRoles
assignDonorRoles(donorRoles, roles, newTotal, fault) ==
    LET n == NewRoleIndex(donorRoles, newTotal)
        cur == CurrentRoleValue(donorRoles, roles)
        tierIds == {donorRoles[i].id : i \in 1..Len(donorRoles)}
    IN IF Len(donorRoles) = 0 THEN [roles |-> roles, sent |-> 0, raised |-> FALSE]
       ELSE IF n # 0 /\ (cur = 0 \/ donorRoles[n].minAmount > cur)
       THEN IF fault = "remove" /\ roles \cap tierIds # {}
            THEN [roles |-> roles, sent |-> 0, raised |-> TRUE]
            ELSE IF fault = "add"
            THEN [roles |-> roles \ tierIds, sent |-> 0, raised |-> TRUE]
            ELSE IF fault = "congratulate" /\ HasChatChannel
            THEN [roles |-> (roles \ tierIds) \cup {donorRoles[n].id},
                  sent |-> 0, raised |-> TRUE]
            ELSE [roles |-> (roles \ tierIds) \cup {donorRoles[n].id},
                  sent |-> IF HasChatChannel THEN 1 ELSE 0, raised |-> FALSE]
       ELSE [roles |-> roles, sent |-> 0, raised |-> FALSE]

----------------------------------------------------------------------------
(* Price resolver *)

THROWN == -2     \* a provider call that throws (HTTP error, network, no API key)
ProviderResults == {THROWN, NULL, 1, 2}
PriceFeeds == [1..3 -> ProviderResults]   \* CoinGecko, CoinPaprika, CoinMarketCap
NoFeed == [i \in 1..3 |-> THROWN]

Digits == <<"0", "1", "2", "3", "4", "5", "6", "7", "8", "9">>

IsDigit(c) == \E i \in 1..10 : Digits[i] = c

DigitValue(c) == (CHOOSE i \in 1..10 : Digits[i] = c) - 1

\* the value of the digits tok[1..n], read as a decimal numeral
RECURSIVE Numeral(_, _)
Numeral(tok, n) == IF n = 0 THEN 0 ELSE 10 * Numeral(tok, n - 1) + DigitValue(tok[n])

\* the length of the longest prefix of tok that is a run of digits
LeadingDigits(tok) ==
    CHOOSE n \in 0..Len(tok) :
        /\ \A i \in 1..n : IsDigit(tok[i])
        /\ n < Len(tok) => ~IsDigit(tok[n + 1])

\* Number.parseFloat on a token of digits and dots whose fraction digits, if
\* any, are zeros: the integer part, NaN when no digit can be read
parseFloat(tok) ==
    LET n == LeadingDigits(tok)
    IN IF n > 0 THEN Numeral(tok, n)
       ELSE IF Len(tok) >= 2 /\ tok[1] = "." /\ IsDigit(tok[2]) THEN 0
       ELSE NaN

\* a * b on JavaScript numbers that may be NaN
Times(a, b) == IF a = NaN \/ b = NaN THEN NaN ELSE a * b

\* extractPriceFromTipMessage(content, amount): content.match(/\$(\d+\.?\d*)/)
\* finds the first "$" that digits follow; msg.dollars lists, in the order of
\* the text, the numerals that follow a "$"
extractPriceFromTipMessage(msg) ==
    IF Len(msg.dollars) = 0 THEN NULL ELSE parseFloat(msg.dollars[1])

\* price && price > 0
Positive(price) == price # THROWN /\ price # NULL /\ price > 0

\* getCryptoPrice asking every provider and keeping the last positive price
getCryptoPriceLastWins(feed, amount) ==
    LET good == {i \in 1..3 : Positive(feed[i])}
        final == CHOOSE i \in good : \A j \in good : i >= j
    IN IF good = {} THEN [value |-> NULL, queried |-> 3]
       ELSE [value |-> Times(feed[final], amount), queried |-> 3]

\* getCryptoPrice(symbol, amount): [value, queried]: the total (NULL when every
\* provider failed) and how many providers were called
getCryptoPrice(feed, amount) ==
    LET good == {i \in 1..3 : Positive(feed[i])}
        first == CHOOSE i \in good : \A j \in good : i <= j
    IN IF good = {} THEN [value |-> NULL, queried |-> 3]
       ELSE [value |-> Times(feed[first], amount), queried |-> first]

----------------------------------------------------------------------------
(* Entry allocation: the body of the loop over db.donationDraws *)

\* senderMember.roles.cache.has(db.config.vipRoleId)
HasVipRole(roles, vipRoleId) == vipRoleId \in roles

\* PassesChecks without `if (draw.manualEntriesOnly) continue`
PassesChecksIgnoringManual(draw, drawId, usdValue, selectedDrawId, roles, vipRoleId) ==
    /\ draw.active
    /\ ~(usdValue < draw.minAmount \/ (Truthy(draw.maxAmount) /\ usdValue > draw.maxAmount))
    /\ ~(selectedDrawId # NULL /\ selectedDrawId # AUTO /\ drawId # selectedDrawId)
    /\ ~(draw.vipOnly /\ vipRoleId # NoRole /\ ~HasVipRole(roles, vipRoleId))

\* the checks that `continue` before "Calculate entries"
PassesChecks(draw, drawId, usdValue, selectedDrawId, roles, vipRoleId) ==
    /\ draw.active
    /\ ~(usdValue < draw.minAmount \/ (Truthy(draw.maxAmount) /\ usdValue > draw.maxAmount))
    /\ ~draw.manualEntriesOnly
    /\ ~(selectedDrawId # NULL /\ selectedDrawId # AUTO /\ drawId # selectedDrawId)
    /\ ~(draw.vipOnly /\ vipRoleId # NoRole /\ ~HasVipRole(roles, vipRoleId))

\* Math.floor(usdValue / draw.minAmount), usdValue > 0
Entries(usdValue, minAmount) ==
    IF minAmount = 0 THEN Infinity ELSE usdValue \div minAmount

\* EntriesToAdd without the capacity skip and the Math.min clamp
EntriesToAddUnclamped(draw, usdValue) ==
    LET entries == Entries(usdValue, draw.minAmount)
    IN IF entries <= 0 THEN 0 ELSE entries

\* from "Calculate entries" to entriesToAdd: 0 when the loop continues
EntriesToAdd(draw, usdValue) ==
    LET entries == Entries(usdValue, draw.minAmount)
        currentEntries == TotalEntries(draw)
    IN IF entries <= 0 THEN 0
       ELSE IF Truthy(draw.maxEntries) /\ currentEntries >= draw.maxEntries THEN 0
       ELSE IF Truthy(draw.maxEntries) THEN Min(entries, draw.maxEntries - currentEntries)
       ELSE entries

\* what one donation adds to one draw
Grant(draw, drawId, usdValue, selectedDrawId, roles, vipRoleId) ==
    IF PassesChecks(draw, drawId, usdValue, selectedDrawId, roles, vipRoleId)
    THEN EntriesToAdd(draw, usdValue)
    ELSE 0

----------------------------------------------------------------------------
(* Observation of the handler that ran last: which handler, where it ended, *)
(* whether it called saveDatabase, how many messages it sent, how many      *)
(* price providers it called, the count an admin command reports, the draw  *)
(* select_winner was asked for, and for a donation the sender, the USD      *)
(* value and the entries granted per draw.  Steps of handlers outside `watched`   *)
(* are recorded as Idle.  A donation's record also keeps the message and   *)
(* the answers the price providers had for it.                              *)

\* message.author of the messages the bot receives: tip.cc, another bot, a member
TipccBotId == "617037497574359050"
Tipcc == [id |-> TipccBotId, bot |-> TRUE]
OtherBot == [id |-> "bot2", bot |-> TRUE]
Human == [id |-> "u1", bot |-> FALSE]
Authors == {Tipcc, OtherBot, Human}

\* a message, by its author and by what the four grammars and the price
\* pattern read in its text: the sender, recipient, amount and currency
\* tokens, and the numerals that follow a "$".  Written by tip.cc unless
\* From says otherwise.
Message(match, sender, recipient, amount, currency, dollars) ==
    [author |-> Tipcc,
     match |-> match, sender |-> sender, recipient |-> recipient,
     amount |-> amount, currency |-> currency, dollars |-> dollars]

From(author, msg) == [msg EXCEPT !.author = author]

NoMessage == Message(FALSE, NoUser, <<>>, <<>>, "", <<>>)

\* the numeral of n, 0 <= n <= 9, and a text whose only "$" is followed by it
Numeric(n) == <<Digits[n + 1]>>
Dollar(n) == <<Numeric(n)>>

\* an option of a slash command: {} when omitted, {v} when supplied
Supplied(o) == o # {}
Val(o) == CHOOSE x \in o : TRUE

\* the options of edit_draw, none supplied
NoOptions ==
    [name |-> {}, reward |-> {}, minAmount |-> {}, maxAmount |-> {}, maxEntries |-> {},
     active |-> {}, manualEntries |-> {}, vipOnly |-> {}]

Obs(op, stage, saved) ==
    [op |-> op, stage |-> stage, sender |-> NoUser, usd |-> 0, granted |-> NoEntries,
     saved |-> saved, sent |-> 0, early |-> 0, raised |-> "none", queried |-> 0,
     count |-> 0, draw |-> NULL, opts |-> NoOptions, msg |-> NoMessage, feed |-> NoFeed]

DonationObs(msg, feed, stage) ==
    [Obs("donation", stage, FALSE) EXCEPT !.msg = msg, !.feed = feed]

Idle == Obs("idle", "", FALSE)

Observe(o) == IF o.op \in watched THEN o ELSE Idle

TotalDonations == SumOver([u \in DOMAIN users |-> Len(users[u].donations)], DOMAIN users)
TotalWins == SumOver([u \in DOMAIN users |-> users[u].wins], DOMAIN users)

\* the stored document
Doc == [users |-> users, donationDraws |-> donationDraws, config |-> config]

----------------------------------------------------------------------------
(* events/messageCreate: handleTipccDonation *)

\* guild.members.fetch(sender), then the username / display name searches
FindSender(sender) == IF sender \in Members THEN sender ELSE NoUser

\* db.config?.acceptedCryptocurrencies || CONFIG.DEFAULT_ACCEPTED_CRYPTOCURRENCIES
AcceptedCurrencies(cfg) ==
    IF cfg.acceptedCryptocurrencies = NULL THEN DefaultAccepted
    ELSE cfg.acceptedCryptocurrencies

\* PassesPolicy without the acceptedCurrencies.includes check
PassesPolicyAnyCurrency(cfg, msg) ==
    /\ msg.match
    /\ Len(cfg.allowedRecipients) # 0
    /\ isAllowedRecipient(cfg.allowedRecipients, msg.recipient)

\* the policy with the senders config.globalBlacklist names turned away
PassesPolicyHonouringBlacklist(cfg, msg) ==
    /\ msg.match
    /\ Len(cfg.allowedRecipients) # 0
    /\ isAllowedRecipient(cfg.allowedRecipients, msg.recipient)
    /\ ToUpperCase(msg.currency) \in AcceptedCurrencies(cfg)
    /\ \A list \in cfg.globalBlacklist :
          \A i \in 1..Len(list.users) : list.users[i].id # msg.sender

\* the recipient and currency policy: does the message go on to price resolution
PassesPolicy(cfg, msg) ==
    /\ msg.match
    /\ Len(cfg.allowedRecipients) # 0
    /\ isAllowedRecipient(cfg.allowedRecipients, msg.recipient)
    /\ ToUpperCase(msg.currency) \in AcceptedCurrencies(cfg)

\* where the policy drops the message
DropStage(cfg, msg) ==
    IF ~msg.match THEN "nomatch"
    ELSE IF Len(cfg.allowedRecipients) = 0 THEN "norecipients"
    ELSE IF ~isAllowedRecipient(cfg.allowedRecipients, msg.recipient) THEN "recipient"
    ELSE "currency"

\* handleTipccDonation without `if (!usdValue) return`
UnavailableIgnored(usdValue) == FALSE

\* if (!usdValue) return
Unavailable(usdValue) == ~Truthy(usdValue)

\* "Get USD value from tip.cc message first, then fallback to API": the value
\* and the number of providers called
ResolvePrice(msg, feed) ==
    LET embedded == extractPriceFromTipMessage(msg)
        api == getCryptoPrice(feed, parseFloat(msg.amount))
    IN IF Truthy(embedded) THEN [value |-> embedded, queried |-> 0]
       ELSE [value |-> api.value, queried |-> api.queried]

\* Credited with the record stored as the whole list instead of pushed
CreditedReplacing(userData, msg, usdValue, t) ==
    [userData EXCEPT !.totalDonated = @ + usdValue,
                     !.donations = <<[amount |-> usdValue,
                                      currency |-> msg.currency,
                                      originalAmount |-> parseFloat(msg.amount),
                                      timestamp |-> t,
                                      recipient |-> msg.recipient]>>,
                     !.streaks = updateDonationStreak(@, t)]

\* Credited with the quantity of coins stored as the amount of the record
CreditedInCoins(userData, msg, usdValue, t) ==
    [userData EXCEPT !.totalDonated = @ + usdValue,
                     !.donations = Append(@, [amount |-> parseFloat(msg.amount),
                                              currency |-> msg.currency,
                                              originalAmount |-> parseFloat(msg.amount),
                                              timestamp |-> t,
                                              recipient |-> msg.recipient]),
                     !.streaks = updateDonationStreak(@, t)]

\* the user record after "Add donation" and updateDonationStreak, at time t
Credited(userData, msg, usdValue, t) ==
    [userData EXCEPT !.totalDonated = @ + usdValue,
                     !.donations = Append(@, [amount |-> usdValue,
                                              currency |-> msg.currency,
                                              originalAmount |-> parseFloat(msg.amount),
                                              timestamp |-> t,
                                              recipient |-> msg.recipient]),
                     !.streaks = updateDonationStreak(@, t)]

\* the draws after "Add entries", with a draw that is full closed
GrantedDrawsClosingFull(draws, senderId, grant) ==
    [d \in DOMAIN draws |->
        [draws[d] EXCEPT
            !.entries[senderId] = Plus(@, grant[d]),
            !.active = @ /\ ~(Truthy(draws[d].maxEntries)
                                /\ Plus(TotalEntries(draws[d]), grant[d]) >= draws[d].maxEntries)]]

\* the draws after "Add entries" has run for every draw: the count of the
\* sender grows by what the draw grants
GrantedDraws(draws, senderId, grant) ==
    [d \in DOMAIN draws |-> [draws[d] EXCEPT !.entries[senderId] = Plus(@, grant[d])]]

\* the pipeline from "Initialize user data" to the confirmation message, run
\* at time t on the document db for a sender holding roles: the document it
\* saves, the roles the sender holds afterwards, the entries granted, the
\* messages sent in all and before saveDatabase, the call that threw, and
\* whether the handler ran to its end or into its own catch.  Both reward
\* steps run, and send their messages, before the loop over the draws and
\* saveDatabase; the confirmation follows saveDatabase.
Processed(db, roles, t, msg, usdValue, senderId, fault) ==
    LET u0 == WithUser(db.users, senderId)[senderId]
        u1 == Credited(u0, msg, usdValue, t)
        tier == assignDonorRoles(db.config.donorRoles, roles, u1.totalDonated, fault)
        awarded == checkAndAssignAchievements(u1, fault)
        u2 == awarded.userData
        grant == [d \in DrawIds |->
                    IF d \in DOMAIN db.donationDraws
                    THEN Grant(db.donationDraws[d], d, usdValue, u2.selectedDraw,
                               tier.roles, db.config.vipRoleId)
                    ELSE 0]
        entriesAdded == SumOver(grant, DrawIds)
        u3 == [u2 EXCEPT !.entries = [d \in DrawIds |-> Plus(u2.entries[d], grant[d])]]
        confirmationThrows == fault = "confirmation" /\ entriesAdded > 0
    IN [users |-> (senderId :> u3) @@ db.users,
        donationDraws |-> GrantedDraws(db.donationDraws, senderId, grant),
        config |-> db.config,
        roles |-> tier.roles,
        grant |-> grant,
        early |-> tier.sent + awarded.sent,
        sent |-> tier.sent + awarded.sent
                 + (IF entriesAdded > 0 /\ ~confirmationThrows THEN 1 ELSE 0),
        raised |-> IF tier.raised \/ awarded.raised \/ confirmationThrows
                   THEN fault ELSE "none",
        stage |-> IF confirmationThrows THEN "caught" ELSE "done"]

\* the handler from "Initialize user data" on, working on the document db
ProcessDonation(db, msg, feed, usdValue, queried, senderId, fault) ==
    LET r == Processed(db, memberRoles[senderId], now, msg, usdValue, senderId, fault)
    IN /\ users' = r.users
       /\ donationDraws' = r.donationDraws
       /\ config' = r.config
       /\ memberRoles' = [memberRoles EXCEPT ![senderId] = r.roles]
       /\ last' = Observe([DonationObs(msg, feed, r.stage) EXCEPT
                               !.sender = senderId, !.usd = usdValue, !.granted = r.grant,
                               !.saved = TRUE, !.sent = r.sent, !.early = r.early,
                               !.raised = r.raised, !.queried = queried])
       /\ UNCHANGED <<now, watched>>

\* the handler from the price lookup on, working on the document db
PriceAndProcess(db, msg, feed, fault) ==
    LET price == ResolvePrice(msg, feed)
        senderId == FindSender(msg.sender)
    IN IF Unavailable(price.value)
       THEN /\ last' = Observe([DonationObs(msg, feed, "noprice") EXCEPT
                                   !.queried = price.queried, !.usd = price.value])
            /\ UNCHANGED <<users, donationDraws, config, memberRoles, now, watched>>
       ELSE IF senderId = NoUser
       THEN /\ last' = Observe([DonationObs(msg, feed, "nosender") EXCEPT
                                   !.queried = price.queried, !.usd = price.value])
            /\ UNCHANGED <<users, donationDraws, config, memberRoles, now, watched>>
       ELSE ProcessDonation(db, msg, feed, price.value, price.queried, senderId, fault)

\* handleTipccDonation, its awaits resolving before any other event is handled
handleTipccDonation(msg, feed, fault) ==
    IF ~PassesPolicy(config, msg)
    THEN /\ last' = Observe(DonationObs(msg, feed, DropStage(config, msg)))
         /\ UNCHANGED <<users, donationDraws, config, memberRoles, now, watched, pending>>
    ELSE /\ PriceAndProcess(Doc, msg, feed, fault)
         /\ UNCHANGED pending

\* the earlier version of execute (2486-2494): bot messages are dropped
\* before the author id is looked at
executeIgnoringBots(message, feed, fault) ==
    IF message.author.bot \/ message.author.id # TipccBotId
    THEN /\ last' = Observe([Obs("message", "ignored", FALSE) EXCEPT !.msg = message])
         /\ UNCHANGED <<users, donationDraws, config, memberRoles, now, watched, pending>>
    ELSE handleTipccDonation(message, feed, fault)

\* execute of events/messageCreate: the author id is looked at first, every
\* other message ends the handler
execute(message, feed, fault) ==
    IF message.author.id = TipccBotId
    THEN handleTipccDonation(message, feed, fault)
    ELSE /\ last' = Observe([Obs("message", "ignored", FALSE) EXCEPT !.msg = message])
         /\ UNCHANGED <<users, donationDraws, config, memberRoles, now, watched, pending>>

----------------------------------------------------------------------------
(* commands/admin *)

\* handleCreateDraw: the id is draw_<Date.now()>, the record replaces whatever
\* donationDraws holds under that id
handleCreateDraw(name, reward, minAmount, maxAmount, maxEntries, vipOnly, manualEntries) ==
    LET drawId == now
        newDraw == [name |-> name,
                    reward |-> reward,
                    minAmount |-> minAmount,
                    maxAmount |-> IF Supplied(maxAmount) /\ Truthy(Val(maxAmount))
                                  THEN Val(maxAmount) ELSE DefaultMaxAmount,
                    maxEntries |-> maxEntries,
                    vipOnly |-> Supplied(vipOnly) /\ Val(vipOnly),
                    manualEntriesOnly |-> Supplied(manualEntries) /\ Val(manualEntries),
                    active |-> TRUE,
                    entries |-> NoLedger,
                    winner |-> NoUser]
    IN /\ donationDraws' = (drawId :> newDraw) @@ donationDraws
       /\ last' = Observe(Obs("create_draw", "done", TRUE))
       /\ UNCHANGED <<users, config, memberRoles, now, watched, pending>>

\* the assignments of handleEditDraw with the flags read the way
\* handleCreateDraw reads them, an omitted flag being false
EditedDrawDefaultingFlags(draw, opts) ==
    [draw EXCEPT
        !.name = IF Supplied(opts.name) /\ Val(opts.name) # "" THEN Val(opts.name) ELSE @,
        !.reward = IF Supplied(opts.reward) /\ Val(opts.reward) # "" THEN Val(opts.reward) ELSE @,
        !.minAmount = IF Supplied(opts.minAmount) THEN Val(opts.minAmount) ELSE @,
        !.maxAmount = IF Supplied(opts.maxAmount) THEN Val(opts.maxAmount) ELSE @,
        !.maxEntries = IF Supplied(opts.maxEntries) THEN Val(opts.maxEntries) ELSE @,
        !.active = IF Supplied(opts.active) THEN Val(opts.active) ELSE @,
        !.manualEntriesOnly = Supplied(opts.manualEntries) /\ Val(opts.manualEntries),
        !.vipOnly = Supplied(opts.vipOnly) /\ Val(opts.vipOnly)]

\* the assignments of handleEditDraw: name and reward are applied when they
\* are non-empty, the other options when they are not null.  The fields
\* lastModified and modifiedBy it stamps (like createdBy, createdAt,
\* winnerSelectedAt and selectedBy of the other handlers) are read by no
\* handler and are not kept in the draw record.
EditedDraw(draw, opts) ==
    [draw EXCEPT
        !.name = IF Supplied(opts.name) /\ Val(opts.name) # "" THEN Val(opts.name) ELSE @,
        !.reward = IF Supplied(opts.reward) /\ Val(opts.reward) # "" THEN Val(opts.reward) ELSE @,
        !.minAmount = IF Supplied(opts.minAmount) THEN Val(opts.minAmount) ELSE @,
        !.maxAmount = IF Supplied(opts.maxAmount) THEN Val(opts.maxAmount) ELSE @,
        !.maxEntries = IF Supplied(opts.maxEntries) THEN Val(opts.maxEntries) ELSE @,
        !.active = IF Supplied(opts.active) THEN Val(opts.active) ELSE @,
        !.manualEntriesOnly = IF Supplied(opts.manualEntries) THEN Val(opts.manualEntries) ELSE @,
        !.vipOnly = IF Supplied(opts.vipOnly) THEN Val(opts.vipOnly) ELSE @]

handleEditDraw(drawId, opts) ==
    IF drawId \notin DOMAIN donationDraws
    THEN /\ last' = Observe([Obs("edit_draw", "notfound", FALSE)
                                 EXCEPT !.draw = drawId, !.opts = opts])
         /\ UNCHANGED <<users, donationDraws, config, memberRoles, now, watched, pending>>
    ELSE /\ donationDraws' = [donationDraws EXCEPT ![drawId] = EditedDraw(@, opts)]
         /\ last' = Observe([Obs("edit_draw", "done", TRUE)
                                 EXCEPT !.draw = drawId, !.opts = opts])
         /\ UNCHANGED <<users, config, memberRoles, now, watched, pending>>

\* weightedEntries with every user of the ledger pushed once, whatever the count
weightedEntriesOncePerUser(draw) ==
    LET RECURSIVE Once(_)
        Once(S) == IF S = {} THEN <<>>
                   ELSE LET u == CHOOSE x \in S : TRUE IN <<u>> \o Once(S \ {u})
    IN Once(DOMAIN draw.entries)

\* weightedEntries: for every [userId, entryCount] of the ledger, userId is
\* pushed entryCount times
weightedEntries(draw) ==
    LET RECURSIVE Pushed(_)
        Pushed(S) == IF S = {} THEN <<>>
                     ELSE LET u == CHOOSE x \in S : TRUE
                          IN [i \in 1..draw.entries[u] |-> u] \o Pushed(S \ {u})
    IN Pushed(DOMAIN draw.entries)

\* the users weightedEntries[Math.floor(Math.random() * weightedEntries.length)] can be
Candidates(draw) ==
    {weightedEntries(draw)[i] : i \in 1..Len(weightedEntries(draw))}

\* handleSelectWinner without `if (!draw.active)`
SelectWinnerRejectsIgnoringActive(drawId) ==
    IF drawId \notin DOMAIN donationDraws THEN "notfound"
    ELSE IF TotalEntries(donationDraws[drawId]) = 0 THEN "noentries"
    ELSE ""

\* why handleSelectWinner replies with an error, "" when it goes on
SelectWinnerRejects(drawId) ==
    IF drawId \notin DOMAIN donationDraws THEN "notfound"
    ELSE IF ~donationDraws[drawId].active THEN "inactive"
    ELSE IF TotalEntries(donationDraws[drawId]) = 0 THEN "noentries"
    ELSE ""

\* handleSelectWinner; building weightedEntries does not end on an Infinity count
handleSelectWinner(drawId, winnerId) ==
    IF SelectWinnerRejects(drawId) # ""
    THEN /\ last' = Observe([Obs("select_winner", SelectWinnerRejects(drawId), FALSE)
                                 EXCEPT !.draw = drawId])
         /\ UNCHANGED <<users, donationDraws, config, memberRoles, now, watched, pending>>
    ELSE /\ TotalEntries(donationDraws[drawId]) < Infinity
         /\ winnerId \in Candidates(donationDraws[drawId])
         /\ donationDraws' = [donationDraws EXCEPT ![drawId].active = FALSE,
                                                   ![drawId].winner = winnerId]
         /\ users' = [WithUser(users, winnerId) EXCEPT ![winnerId].wins = @ + 1]
         /\ last' = Observe([Obs("select_winner", "done", TRUE)
                                 EXCEPT !.sender = winnerId, !.draw = drawId])
         /\ UNCHANGED <<config, memberRoles, now, watched, pending>>

\* the target users of assign_entries: the user, else the members holding the role
TargetUsers(user, role) ==
    IF user # NoUser THEN {user}
    ELSE {m \in Members : role \in memberRoles[m]}

\* why handleAssignEntries replies with an error before it looks for its
\* targets, "" when it goes on
AssignEntriesRejectsEarly(draws, user, role, drawId, entries) ==
    IF drawId \notin DOMAIN draws THEN "notfound"
    ELSE IF ~draws[drawId].active THEN "inactive"
    ELSE IF entries <= 0 THEN "notpositive"
    ELSE IF user = NoUser /\ role = NoRole THEN "notarget"
    ELSE ""

\* the test for space made with the entries of one target
AssignEntriesRejectsLateCountingOnce(draw, targets, entries) ==
    IF targets = {} THEN "nousers"
    ELSE IF Plus(TotalEntries(draw), entries) > draw.maxEntries
    THEN "nospace"
    ELSE ""

\* why it replies with an error once it has its targets, "" when it assigns
AssignEntriesRejectsLate(draw, targets, entries) ==
    IF targets = {} THEN "nousers"
    ELSE IF Plus(TotalEntries(draw), Cardinality(targets) * entries) > draw.maxEntries
    THEN "nospace"
    ELSE ""

AssignEntriesRejects(user, role, drawId, entries) ==
    IF AssignEntriesRejectsEarly(donationDraws, user, role, drawId, entries) # ""
    THEN AssignEntriesRejectsEarly(donationDraws, user, role, drawId, entries)
    ELSE AssignEntriesRejectsLate(donationDraws[drawId], TargetUsers(user, role), entries)

\* the loop "Assign entries to each target user": the draws and the users afterwards
AssignedDraws(draws, targets, drawId, entries) ==
    [draws EXCEPT ![drawId].entries =
        [u \in Members |-> IF u \in targets THEN Plus(@[u], entries) ELSE @[u]]]

AssignedUsers(us, targets, drawId, entries) ==
    [u \in DOMAIN us \cup targets |->
        IF u \in targets
        THEN [WithUser(us, u)[u] EXCEPT !.entries[drawId] = Plus(@, entries)]
        ELSE us[u]]

\* handleAssignEntries, its await (guild.members.fetch, role path) resolving
\* before any other event is handled
handleAssignEntries(user, role, drawId, entries) ==
    IF AssignEntriesRejects(user, role, drawId, entries) # ""
    THEN /\ last' = Observe(Obs("assign_entries",
                                AssignEntriesRejects(user, role, drawId, entries), FALSE))
         /\ UNCHANGED <<users, donationDraws, config, memberRoles, now, watched, pending>>
    ELSE /\ donationDraws' = AssignedDraws(donationDraws, TargetUsers(user, role), drawId, entries)
         /\ users' = AssignedUsers(users, TargetUsers(user, role), drawId, entries)
         /\ last' = Observe(Obs("assign_entries", "done", TRUE))
         /\ UNCHANGED <<config, memberRoles, now, watched, pending>>

\* utils/database.js, getDatabase: what it hands to a handler is either the
\* cached object every handler shares or a private copy read from the store
Handouts == {"shared", "copy"}

\* the document a resumed handler works on
Held(p) == IF p.handout = "copy" THEN p.db ELSE Doc

\* handleAssignEntries for a role, up to `await interaction.guild.members.fetch()`:
\* the draw was found active and the entries positive
handleAssignEntriesSuspend(role, drawId, entries, handout) ==
    /\ role # NoRole
    /\ AssignEntriesRejectsEarly(donationDraws, NoUser, role, drawId, entries) = ""
    /\ pending' = pending \cup {[db |-> Doc, handout |-> handout, role |-> role,
                                 drawId |-> drawId, entries |-> entries]}
    /\ last' = Observe(Obs("assign_entries", "await", FALSE))
    /\ UNCHANGED <<users, donationDraws, config, memberRoles, now, watched>>

\* handleAssignEntries for a role, from the answer of members.fetch() on
handleAssignEntriesResume(p) ==
    LET db == Held(p)
        targets == TargetUsers(NoUser, p.role)
        rejects == AssignEntriesRejectsLate(db.donationDraws[p.drawId], targets, p.entries)
    IN /\ pending' = pending \ {p}
       /\ IF rejects # ""
          THEN /\ last' = Observe(Obs("assign_entries", rejects, FALSE))
               /\ UNCHANGED <<users, donationDraws, config, memberRoles, now, watched>>
          ELSE /\ donationDraws' = AssignedDraws(db.donationDraws, targets, p.drawId, p.entries)
               /\ users' = AssignedUsers(db.users, targets, p.drawId, p.entries)
               /\ config' = db.config
               /\ last' = Observe(Obs("assign_entries", "done", TRUE))
               /\ UNCHANGED <<memberRoles, now, watched>>

\* handleTipccDonation up to its first await (the price lookup): the message
\* passed the policy of the document it loaded
handleTipccDonationSuspend(msg, feed, handout) ==
    /\ PassesPolicy(config, msg)
    /\ pending' = pending \cup {[db |-> Doc, handout |-> handout, msg |-> msg, feed |-> feed]}
    /\ last' = Observe(DonationObs(msg, feed, "await"))
    /\ UNCHANGED <<users, donationDraws, config, memberRoles, now, watched>>

\* handleTipccDonation from the answer of the price lookup on: it goes on
\* with the document it loaded and saves that document
handleTipccDonationResume(p) ==
    /\ pending' = pending \ {p}
    /\ PriceAndProcess(Held(p), p.msg, p.feed, "none")

\* the filter of handleCleanRecipients without `recipient.trim().length > 0`
CleanedRecipientsKeepingBlank(allowedRecipients) ==
    SelectSeq(allowedRecipients, LAMBDA e : e.isString)

\* allowedRecipients.filter(recipient => typeof recipient === 'string' && recipient.trim().length > 0)
CleanedRecipients(allowedRecipients) ==
    SelectSeq(allowedRecipients, LAMBDA e : e.isString /\ Len(Trim(e.text)) > 0)

\* handleCleanRecipients: keeps the non-blank strings and reports
\* removedCount = originalCount - cleanedCount
handleCleanRecipients ==
    /\ config' = [config EXCEPT !.allowedRecipients = CleanedRecipients(@)]
    /\ last' = Observe([Obs("clean_recipients", "done", TRUE) EXCEPT
                            !.count = Len(config.allowedRecipients)
                                      - Len(CleanedRecipients(config.allowedRecipients))])
    /\ UNCHANGED <<users, donationDraws, memberRoles, now, watched, pending>>

handleAddRecipient(recipient) ==
    IF Includes(config.allowedRecipients, StringEntry(recipient))
    THEN /\ last' = Observe(Obs("add_recipient", "duplicate", FALSE))
         /\ UNCHANGED <<users, donationDraws, config, memberRoles, now, watched, pending>>
    ELSE /\ config' = [config EXCEPT !.allowedRecipients = Append(@, StringEntry(recipient))]
         /\ last' = Observe(Obs("add_recipient", "done", TRUE))
         /\ UNCHANGED <<users, donationDraws, memberRoles, now, watched, pending>>

handleRemoveRecipient(recipient) ==
    IF ~Includes(config.allowedRecipients, StringEntry(recipient))
    THEN /\ last' = Observe(Obs("remove_recipient", "notlisted", FALSE))
         /\ UNCHANGED <<users, donationDraws, config, memberRoles, now, watched, pending>>
    ELSE /\ config' = [config EXCEPT !.allowedRecipients =
                          RemoveAt(@, IndexOf(@, StringEntry(recipient)))]
         /\ last' = Observe(Obs("remove_recipient", "done", TRUE))
         /\ UNCHANGED <<users, donationDraws, memberRoles, now, watched, pending>>

\* config.donorRoles with the tier of role set: Object.entries keeps the
\* place of a key that is assigned again and puts a new key last
WithTier(donorRoles, tier) ==
    IF \E i \in 1..Len(donorRoles) : donorRoles[i].id = tier.id
    THEN [i \in 1..Len(donorRoles) |->
             IF donorRoles[i].id = tier.id THEN tier ELSE donorRoles[i]]
    ELSE Append(donorRoles, tier)

\* handleConfigureDonorRoles: the actions add, remove and reset (role and
\* minAmount are NoRole and NULL when the option is omitted); any other
\* action saves nothing
handleConfigureDonorRoles(action, role, minAmount, maxAmount) ==
    LET roles == config.donorRoles
        saves == \/ action = "add" /\ role # NoRole /\ minAmount # NULL
                 \/ action = "remove" /\ role # NoRole
                       /\ \E i \in 1..Len(roles) : roles[i].id = role
                 \/ action = "reset"
        after == CASE action = "add" ->
                        WithTier(roles, [id |-> role, minAmount |-> minAmount,
                                         maxAmount |-> maxAmount])
                   [] action = "remove" -> SelectSeq(roles, LAMBDA r : r.id # role)
                   [] OTHER -> <<>>
    IN IF saves
       THEN /\ config' = [config EXCEPT !.donorRoles = after]
            /\ last' = Observe(Obs("donor_roles", "done", TRUE))
            /\ UNCHANGED <<users, donationDraws, memberRoles, now, watched, pending>>
       ELSE /\ last' = Observe(Obs("donor_roles", "rejected", FALSE))
            /\ UNCHANGED <<users, donationDraws, config, memberRoles, now, watched, pending>>

\* the switch of fixUserAchievements without the case of the streak
FixEarnedWithoutStreak(key, userData) ==
    CASE key = "first_steps" -> userData.totalDonated > 0
      [] key = "generous_donor" -> userData.totalDonated >= 100
      [] key = "big_spender" -> userData.totalDonated >= 500
      [] key = "whale" -> userData.totalDonated >= 1000
      [] key = "community_pillar" -> 0 >= 3
      [] key = "lucky_winner" -> userData.wins > 0
      [] OTHER -> FALSE

\* the switch of fixUserAchievements (1687-1711); the referral count is 0
\* here as in checkAndAssignAchievements
FixEarned(key, userData) ==
    CASE key = "first_steps" -> userData.totalDonated > 0
      [] key = "generous_donor" -> userData.totalDonated >= 100
      [] key = "big_spender" -> userData.totalDonated >= 500
      [] key = "whale" -> userData.totalDonated >= 1000
      [] key = "streak_master" -> userData.streaks.current >= 7
      [] key = "community_pillar" -> 0 >= 3
      [] key = "lucky_winner" -> userData.wins > 0
      [] OTHER -> FALSE

\* the keys the loop of fixUserAchievements pushes, in the order of
\* Object.entries(ACHIEVEMENTS), the catalog both evaluations import
FixedAchievements(userData) ==
    SelectSeq(AchievementKeys,
              LAMBDA k : ~Includes(userData.achievements, k) /\ FixEarned(k, userData))

\* fixUserAchievements(guild, db, userId, ACHIEVEMENTS): the record afterwards
\* and fixedCount
fixUserAchievements(userData) ==
    [userData |-> [userData EXCEPT !.achievements = @ \o FixedAchievements(userData)],
     fixedCount |-> Len(FixedAchievements(userData))]

\* the users handleFixAchievements runs fixUserAchievements on: the user of
\* the option if there is a record of them, else the users with totalDonated > 0
FixedUsers(us, targetUser) ==
    IF targetUser # NoUser THEN {targetUser} \cap DOMAIN us
    ELSE {u \in DOMAIN us : us[u].totalDonated > 0}

\* handleFixAchievements: targetUser is NoUser when the option is omitted;
\* saveDatabase is called on every path
handleFixAchievements(targetUser) ==
    LET fixed == FixedUsers(users, targetUser)
        counts == [u \in fixed |-> fixUserAchievements(users[u]).fixedCount]
    IN /\ users' = [u \in DOMAIN users |->
                       IF u \in fixed THEN fixUserAchievements(users[u]).userData
                       ELSE users[u]]
       /\ last' = Observe([Obs("fix_achievements",
                                IF targetUser # NoUser /\ fixed = {} THEN "nohistory" ELSE "done",
                                TRUE)
                               EXCEPT !.sender = targetUser,
                                      !.count = SumOver(counts, fixed)])
       /\ UNCHANGED <<donationDraws, config, memberRoles, now, watched, pending>>

\* process.env.OWNER_ID || "659745190382141453"
OWNER_ID == "659745190382141453"

\* interaction.user.id of the slash commands
Callers == Members \cup {OWNER_ID}

\* handleSetup: its own test admits the owner and the holders of the
\* Administrator permission; admin_role is required, the channels are options
handleSetup(caller, isAdministrator, adminRole, logChannel, notificationChannel) ==
    IF caller # OWNER_ID /\ ~isAdministrator
    THEN /\ last' = Observe(Obs("setup", "denied", FALSE))
         /\ UNCHANGED <<users, donationDraws, config, memberRoles, now, watched, pending>>
    ELSE /\ config' = [config EXCEPT
                          !.adminRoleId = adminRole,
                          !.logChannelId = IF Supplied(logChannel) THEN logChannel ELSE @,
                          !.notificationChannelId =
                              IF Supplied(notificationChannel) THEN notificationChannel ELSE @]
         /\ last' = Observe(Obs("setup", "done", TRUE))
         /\ UNCHANGED <<users, donationDraws, memberRoles, now, watched, pending>>

\* checkAdminPermissions with a failed members.fetch taken for a role held
checkAdminPermissionsTrustingOnError(caller, fetchFails) ==
    \/ caller = OWNER_ID
    \/ /\ config.adminRoleId # NoRole
       /\ (fetchFails \/ config.adminRoleId \in memberRoles[caller])

\* checkAdminPermissions: the owner, else a member whose fetched roles hold
\* config.adminRoleId; false without adminRoleId and when the fetch throws
checkAdminPermissions(caller, fetchFails) ==
    \/ caller = OWNER_ID
    \/ /\ config.adminRoleId # NoRole
       /\ ~fetchFails
       /\ config.adminRoleId \in memberRoles[caller]

\* execute of commands/admin: the permission test, then the handler of the
\* subcommand
executeAdmin(caller, fetchFails, handler) ==
    IF ~checkAdminPermissions(caller, fetchFails)
    THEN /\ last' = Observe(Obs("admin", "denied", FALSE))
         /\ UNCHANGED <<users, donationDraws, config, memberRoles, now, watched, pending>>
    ELSE handler

\* config.globalBlacklist as handleBlacklist finds or creates it
Blacklist(cfg) ==
    IF Supplied(cfg.globalBlacklist) THEN Val(cfg.globalBlacklist)
    ELSE [users |-> <<>>, roles |-> <<>>]

\* handleBlacklist, actions add_user, remove_user and list (user is NoUser
\* when the option is omitted).  The replies that end the handler early come
\* before saveDatabase: whether the store keeps the list created for them
\* is up to utils/database.js, both are possible.
handleBlacklist(caller, action, user) ==
    LET list == Blacklist(config)
        listed == \E i \in 1..Len(list.users) : list.users[i].id = user
        rejects == \/ action \in {"add_user", "remove_user"} /\ user = NoUser
                   \/ action = "add_user" /\ listed
                   \/ action = "remove_user" /\ ~listed
        after == CASE action = "add_user" ->
                        [list EXCEPT !.users =
                            Append(@, [id |-> user, reason |-> "No reason provided",
                                       addedBy |-> caller, addedAt |-> now])]
                   [] action = "remove_user" ->
                        [list EXCEPT !.users = SelectSeq(@, LAMBDA e : e.id # user)]
                   [] OTHER -> list
    IN IF rejects
       THEN /\ config' \in {config, [config EXCEPT !.globalBlacklist = {list}]}
            /\ last' = Observe(Obs("blacklist", "rejected", FALSE))
            /\ UNCHANGED <<users, donationDraws, memberRoles, now, watched, pending>>
       ELSE /\ config' = [config EXCEPT !.globalBlacklist = {after}]
            /\ last' = Observe(Obs("blacklist", "done", TRUE))
            /\ UNCHANGED <<users, donationDraws, memberRoles, now, watched, pending>>

Features ==
    {"vipDraws", "achievementSystem", "seasonalLeaderboards", "drawNotifications",
     "anonymousMode", "automatedDraws"}

\* config.featureToggles as handleFeatures finds or creates it
Toggles(cfg) ==
    IF Supplied(cfg.featureToggles) THEN Val(cfg.featureToggles)
    ELSE [f \in Features |-> TRUE]

\* handleFeatures: view_all and a feature without `enabled` reply before
\* saveDatabase (see handleBlacklist), a feature with `enabled` is set and saved
handleFeatures(feature, enabled) ==
    IF feature = "view_all" \/ ~Supplied(enabled)
    THEN /\ config' \in {config, [config EXCEPT !.featureToggles = {Toggles(config)}]}
         /\ last' = Observe(Obs("features", "shown", FALSE))
         /\ UNCHANGED <<users, donationDraws, memberRoles, now, watched, pending>>
    ELSE /\ config' = [config EXCEPT
                          !.featureToggles = {[Toggles(config) EXCEPT ![feature] = Val(enabled)]}]
         /\ last' = Observe(Obs("features", "done", TRUE))
         /\ UNCHANGED <<users, donationDraws, memberRoles, now, watched, pending>>

----------------------------------------------------------------------------
(* commands/user select_draw: the command the help text describes ("Choose  *)
(* which draw your future donations will count towards. Use `auto` to       *)
(* return to automatic selection"); its handler is the only writer of       *)
(* users[u].selectedDraw.  It is taken to need an existing user record and  *)
(* an existing draw.                                                        *)

handleSelectDraw(user, choice) ==
    /\ user \in DOMAIN users
    /\ choice = AUTO \/ choice \in DOMAIN donationDraws
    /\ users' = [users EXCEPT ![user].selectedDraw = choice]
    /\ last' = Observe(Obs("select_draw", "done", TRUE))
    /\ UNCHANGED <<donationDraws, config, memberRoles, now, watched, pending>>

----------------------------------------------------------------------------
(* Initial states: the document of a guild nobody has donated to yet.  No   *)
(* handler of the repository writes config.vipRoleId, so both settings are  *)
(* initial states; u1 holds the VIP role on the Discord side.               *)

\* Of config, vipRoleId and adminRoleId are NoRole when unset; the channel
\* ids, globalBlacklist and featureToggles are {} when unset and {v} when set.
FreshConfig(allowedRecipients) ==
    [allowedRecipients : allowedRecipients,
     acceptedCryptocurrencies : {NULL},
     vipRoleId : {NoRole, VipRole},
     donorRoles : {<<>>},
     adminRoleId : {NoRole},
     logChannelId : {{}},
     notificationChannelId : {{}},
     globalBlacklist : {{}},
     featureToggles : {{}}]

InitDocument ==
    /\ users = << >>
    /\ donationDraws = << >>
    /\ memberRoles = [m \in Members |-> IF m = "u1" THEN {VipRole} ELSE {}]
    /\ now = 1
    /\ last = Idle
    /\ pending = {}

\* time passes between two events; without this step two events read the same Date.now()
Tick ==
    /\ now < MaxTime
    /\ now' = now + 1
    /\ last' = Idle
    /\ UNCHANGED <<users, donationDraws, config, memberRoles, watched, pending>>

----------------------------------------------------------------------------
(* Spec: entry allocation.  Donations to the recipient the guild has set up *)
(* meet one draw in every configuration create_draw and edit_draw can give  *)
(* it, with a ledger filled by assign_entries and by earlier donations.     *)

Init ==
    /\ InitDocument
    /\ config \in FreshConfig({<<StringEntry(BobMention)>>})
    /\ watched = {"donation"}

\* tips of 2 LTC to the recipient, worth $1, $2 or $5 by the text of the message
Donation ==
    /\ TotalDonations < MaxDonations
    /\ \E sender \in Members, embedded \in {1, 2, 5} :
          handleTipccDonation(Message(TRUE, sender, Bob, Numeric(2), "ltc", Dollar(embedded)),
                              NoFeed, "none")

CreateDraw ==
    /\ now \notin DOMAIN donationDraws
    /\ Cardinality(DOMAIN donationDraws) < MaxDraws
    /\ \E minAmount \in {0, 2}, maxEntries \in {0, 2} :
          handleCreateDraw("Draw", "Prize", minAmount, {}, maxEntries, {}, {})

\* edit_draw with one option supplied
EditDraw ==
    \E drawId \in DrawIds :
       \/ \E v \in {0, 2} : handleEditDraw(drawId, [NoOptions EXCEPT !.minAmount = {v}])
       \/ \E v \in {0, 2} : handleEditDraw(drawId, [NoOptions EXCEPT !.maxAmount = {v}])
       \/ \E v \in {0, 1, 2} : handleEditDraw(drawId, [NoOptions EXCEPT !.maxEntries = {v}])
       \/ \E v \in BOOLEAN : handleEditDraw(drawId, [NoOptions EXCEPT !.active = {v}])
       \/ \E v \in BOOLEAN : handleEditDraw(drawId, [NoOptions EXCEPT !.manualEntries = {v}])
       \/ \E v \in BOOLEAN : handleEditDraw(drawId, [NoOptions EXCEPT !.vipOnly = {v}])

AssignEntries ==
    \E user \in Members \cup {NoUser}, role \in {NoRole, VipRole},
       drawId \in DrawIds, entries \in {0, 1} :
        handleAssignEntries(user, role, drawId, entries)

Next ==
    \/ Donation
    \/ CreateDraw
    \/ EditDraw
    \/ AssignEntries

Spec == Init /\ [][Next]_vars

----------------------------------------------------------------------------
(* Properties of entry allocation, checked under Spec.  "Unset" for         *)
(* maxEntries and maxAmount is read as the handlers read it: null or 0      *)
(* (create_draw turns max_amount 0 into the default, the allocation loop    *)
(* tests both fields for truthiness).                                       *)

\* the step is a donation that ran the whole pipeline
DonationDone == last'.op = "donation" /\ last'.stage = "done"

\* floor(v / m) for m > 0, by its defining inequality
FloorDiv(v, m) == CHOOSE k \in 0..v : k * m <= v /\ v < (k + 1) * m

\* users[u].entries[d], a missing record or key counting as 0
UserEntries(us, u, d) == IF u \in DOMAIN us THEN us[u].entries[d] ELSE 0

\* users[u].selectedDraw, NULL without a record
SelectedDraw(us, u) == IF u \in DOMAIN us THEN us[u].selectedDraw ELSE NULL

\* the four conditions of the spec's eligibility list that concern the draw and the value
BasicEligible(draw, v) ==
    /\ draw.active
    /\ v >= draw.minAmount
    /\ (~Truthy(draw.maxAmount) \/ v <= draw.maxAmount)
    /\ ~draw.manualEntriesOnly

\* does member s hold the configured VIP role
HoldsConfiguredVip(s) == config.vipRoleId # NoRole /\ config.vipRoleId \in memberRoles[s]

\* the whole eligibility list of the spec, for donor s
FullyEligible(d, s, v) ==
    /\ BasicEligible(donationDraws[d], v)
    /\ (SelectedDraw(users, s) \in {NULL, AUTO} \/ SelectedDraw(users, s) = d)
    /\ (donationDraws[d].vipOnly => HoldsConfiguredVip(s))

\* the grant the spec prescribes for an eligible draw with minAmount > 0
PrescribedGrant(draw, v) ==
    LET units == FloorDiv(v, draw.minAmount)
        total == TotalEntries(draw)
    IN IF ~Truthy(draw.maxEntries) THEN units
       ELSE IF total >= draw.maxEntries THEN 0
       ELSE Min(units, draw.maxEntries - total)

\* C4: a donation of value v adds to every draw that passes every eligibility
\* check and has minAmount m > 0 exactly floor(v/m) entries when maxEntries is
\* unset and min(floor(v/m), maxEntries - current total) when it is set, on the
\* draw's ledger and on the donor's record alike; the grant is never negative,
\* and a draw at or above capacity gets nothing and is left as it was.
C4_GrantIsClampedFloor ==
    [][DonationDone =>
        \A d \in DOMAIN donationDraws :
            (FullyEligible(d, last'.sender, last'.usd) /\ donationDraws[d].minAmount > 0) =>
                LET draw == donationDraws[d]
                    s == last'.sender
                    expected == PrescribedGrant(draw, last'.usd)
                IN /\ expected >= 0
                   /\ donationDraws'[d].entries = [draw.entries EXCEPT ![s] = Plus(@, expected)]
                   /\ UserEntries(users', s, d) = Plus(UserEntries(users, s, d), expected)
                   /\ (Truthy(draw.maxEntries) /\ TotalEntries(draw) >= draw.maxEntries)
                          => donationDraws'[d] = draw
    ]_vars

\* C4 happens: a donation worth more units than the draw had room for was
\* granted the remaining room, at least one entry, and filled the draw
C4_ClampedGrantReached ==
    /\ last.op = "donation" /\ last.stage = "done"
    /\ \E d \in DOMAIN donationDraws :
          /\ donationDraws[d].minAmount > 0
          /\ Truthy(donationDraws[d].maxEntries)
          /\ last.granted[d] >= 1
          /\ last.granted[d] < FloorDiv(last.usd, donationDraws[d].minAmount)
          /\ TotalEntries(donationDraws[d]) = donationDraws[d].maxEntries

\* C5: a donation of value v leaves the ledger of a draw, and every user's
\* entry count for it, unchanged unless the draw is active, v >= minAmount,
\* maxAmount is unset or v <= maxAmount, and manualEntriesOnly is false.
C5_IneligibleDrawUntouched ==
    [][DonationDone =>
        \A d \in DOMAIN donationDraws :
            ~BasicEligible(donationDraws[d], last'.usd) =>
                /\ donationDraws'[d] = donationDraws[d]
                /\ \A u \in Members : UserEntries(users', u, d) = UserEntries(users, u, d)
    ]_vars

\* C5 happens: a donation met an active manual-entries-only draw with room
\* whose amount window it was inside, and was granted nothing in it
C5_ManualDrawSkippedReached ==
    /\ last.op = "donation" /\ last.stage = "done"
    /\ \E d \in DOMAIN donationDraws :
          /\ donationDraws[d].active
          /\ donationDraws[d].manualEntriesOnly
          /\ donationDraws[d].minAmount > 0
          /\ last.usd >= donationDraws[d].minAmount
          /\ last.usd <= donationDraws[d].maxAmount
          /\ TotalEntries(donationDraws[d]) < donationDraws[d].maxEntries
          /\ last.granted[d] = 0
          /\ UserEntries(users, last.sender, d) = 0

\* C6: a donation never adds entries in a vipOnly draw for a donor who does
\* not hold the configured VIP role, whether or not a VIP role is configured.
C6_VipOnlyNeedsVipRole ==
    [][DonationDone =>
        \A d \in DOMAIN donationDraws :
            (donationDraws[d].vipOnly /\ ~HoldsConfiguredVip(last'.sender)) =>
                donationDraws'[d].entries = donationDraws[d].entries
    ]_vars

\* C7: no donation adds entries to a draw whose minAmount is 0.
C7_ZeroMinAmountExcluded ==
    [][DonationDone =>
        \A d \in DOMAIN donationDraws :
            donationDraws[d].minAmount = 0 =>
                donationDraws'[d].entries = donationDraws[d].entries
    ]_vars

----------------------------------------------------------------------------
(* SpecLifecycle: the life of one draw under every command that touches a  *)
(* ledger.  The clock does not move here: events that read the same        *)
(* Date.now() are the case of interest, and create_draw run twice on the   *)
(* same millisecond replaces the draw; it is followed while the user        *)
(* records hold fewer than MaxHeld entries for the id.                      *)

InitLifecycle ==
    /\ InitDocument
    /\ config \in {c \in FreshConfig({<<StringEntry(BobMention)>>}) : c.vipRoleId = NoRole}
    /\ watched = {}

LifecycleCreateDraw ==
    /\ \A u \in Members : UserEntries(users, u, now) < MaxHeld
    /\ \E maxEntries \in {2, 3} : handleCreateDraw("Draw", "Prize", 2, {}, maxEntries, {}, {})

LifecycleEditDraw ==
    \E drawId \in DrawIds :
       \/ \E v \in {1, 3} : handleEditDraw(drawId, [NoOptions EXCEPT !.maxEntries = {v}])
       \/ \E v \in BOOLEAN : handleEditDraw(drawId, [NoOptions EXCEPT !.active = {v}])

SelectWinner ==
    /\ TotalWins < MaxWins
    /\ \E drawId \in DrawIds, winnerId \in Members : handleSelectWinner(drawId, winnerId)

NextLifecycle ==
    \/ Donation
    \/ LifecycleCreateDraw
    \/ LifecycleEditDraw
    \/ AssignEntries
    \/ SelectWinner

SpecLifecycle == InitLifecycle /\ [][NextLifecycle]_vars

\* C1: in every state reachable by donations, assign_entries, create_draw,
\* edit_draw and select_winner, the entries of a draw that has maxEntries set
\* add up to at most its maxEntries.
C1_EntriesWithinMaxEntries ==
    \A d \in DOMAIN donationDraws :
        Truthy(donationDraws[d].maxEntries) =>
            TotalEntries(donationDraws[d]) <= donationDraws[d].maxEntries

\* C3: in every reachable state, for every user u and draw d the count in the
\* draw's ledger equals the count on the user's record, a missing key being 0.
C3_LedgerMatchesUserRecords ==
    \A d \in DOMAIN donationDraws, u \in Members :
        donationDraws[d].entries[u] = UserEntries(users, u, d)

----------------------------------------------------------------------------
(* SpecSelect: two draws, created on different milliseconds, and donors who *)
(* have chosen one of them, or `auto`, with select_draw.                    *)

InitSelect ==
    /\ InitDocument
    /\ config \in {c \in FreshConfig({<<StringEntry(BobMention)>>}) : c.vipRoleId = VipRole}
    /\ watched = {"donation"}

SelectCreateDraw ==
    /\ now \notin DOMAIN donationDraws
    /\ Cardinality(DOMAIN donationDraws) < MaxDraws
    /\ \E minAmount \in {0, 2} : handleCreateDraw("Draw", "Prize", minAmount, {}, 2, {}, {})

SelectEditDraw ==
    \E drawId \in DrawIds, v \in BOOLEAN :
        handleEditDraw(drawId, [NoOptions EXCEPT !.active = {v}])

\* assign_entries to one user: the way a user record comes to exist before a donation
SelectAssignEntries ==
    \E user \in Members, drawId \in DrawIds : handleAssignEntries(user, NoRole, drawId, 1)

SelectDraw ==
    \E user \in Members, choice \in DrawIds \cup {AUTO} : handleSelectDraw(user, choice)

SelectDonation ==
    /\ TotalDonations < MaxDonations
    /\ \E sender \in Members, embedded \in {1, 5} :
          handleTipccDonation(Message(TRUE, sender, Bob, Numeric(2), "ltc", Dollar(embedded)),
                              NoFeed, "none")

NextSelect ==
    \/ Tick
    \/ SelectCreateDraw
    \/ SelectEditDraw
    \/ SelectAssignEntries
    \/ SelectDraw
    \/ SelectDonation

SpecSelect == InitSelect /\ [][NextSelect]_vars

\* C8: when the donor's selectedDraw is set and not "auto", a donation adds
\* entries in no draw other than selectedDraw, and in no draw at all if
\* selectedDraw is missing, inactive or otherwise ineligible; when it is unset
\* or "auto", every eligible draw receives its own grant.
C8_SelectedDrawRestrictsAllocation ==
    [][DonationDone =>
        LET s == last'.sender
            v == last'.usd
            sel == SelectedDraw(users, s)
            Eligible(d) == FullyEligible(d, s, v) /\ donationDraws[d].minAmount > 0
            Untouched(d) == donationDraws'[d].entries = donationDraws[d].entries
        IN IF sel \notin {NULL, AUTO}
           THEN /\ \A d \in DOMAIN donationDraws : d # sel => Untouched(d)
                /\ (sel \notin DOMAIN donationDraws \/ ~Eligible(sel)) =>
                       \A d \in DOMAIN donationDraws : Untouched(d)
           ELSE \A d \in DOMAIN donationDraws :
                    Eligible(d) =>
                        donationDraws'[d].entries =
                            [donationDraws[d].entries EXCEPT
                                ![s] = Plus(@, PrescribedGrant(donationDraws[d], v))]
    ]_vars

----------------------------------------------------------------------------
(* SpecPipeline: the way of a tip.cc message through grammar, recipient and *)
(* currency policy and price resolution.  The guild starts without allowed  *)
(* recipients; add_recipient and remove_recipient change the list, one draw *)
(* waits for entries.                                                       *)

InitPipeline ==
    /\ InitDocument
    /\ config \in {c \in FreshConfig({<<>>}) : c.vipRoleId = NoRole}
    /\ watched = {"donation"}

\* what the providers answer: all throw, none knows the coin, the third
\* only, the first only, the second and the third with different prices
PipelineFeeds ==
    {NoFeed,
     [i \in 1..3 |-> NULL],
     [i \in 1..3 |-> IF i = 3 THEN 1 ELSE THROWN],
     [i \in 1..3 |-> IF i = 1 THEN 1 ELSE NULL],
     [i \in 1..3 |-> IF i = 1 THEN NULL ELSE IF i = 2 THEN 2 ELSE 1]}

\* a tip of 2 LTC from u1 to the recipient with no price, "$0", "$2", "$2" then
\* "$5" or "$0" then "$5" in its text, the messages that differ from it in one
\* reading, tips of "0", "0.00" and "." LTC that the text prices at $2, and
\* tips priced at $2 to recipients named like the one the guild has set up
PipelineMessages ==
    {Message(TRUE, "u1", Bob, Numeric(2), "ltc", d) :
        d \in {<<>>, Dollar(0), Dollar(2), <<Numeric(2), Numeric(5)>>,
               <<Numeric(0), Numeric(5)>>}}
    \cup {Message(FALSE, NoUser, <<>>, <<>>, "", <<>>),
          Message(TRUE, "u1", Eve, Numeric(2), "ltc", <<>>),
          Message(TRUE, "u1", Bob, Numeric(2), "xyz", <<>>),
          Message(TRUE, "ghost", Bob, Numeric(2), "ltc", <<>>),
          Message(TRUE, "u1", Bob, Numeric(0), "ltc", <<>>)}
    \cup {Message(TRUE, "u1", Bob, amount, "ltc", Dollar(2)) :
             amount \in {Numeric(0), <<"0", ".", "0", "0">>, <<".">>}}
    \cup {Message(TRUE, "u1", recipient, Numeric(2), "ltc", Dollar(2)) :
             recipient \in {Bobby, BigBob}}

PipelineDonation ==
    /\ TotalDonations < MaxDonations
    /\ \E msg \in PipelineMessages, feed \in PipelineFeeds :
          handleTipccDonation(msg, feed, "none")

PipelineCreateDraw ==
    /\ now \notin DOMAIN donationDraws
    /\ handleCreateDraw("Draw", "Prize", 2, {}, 2, {}, {})

AddRecipient ==
    /\ Len(config.allowedRecipients) < MaxRecipients
    /\ \E recipient \in {BobMention, Eve} : handleAddRecipient(recipient)

RemoveRecipient ==
    \E recipient \in {BobMention, Eve} : handleRemoveRecipient(recipient)

NextPipeline ==
    \/ PipelineDonation
    \/ PipelineCreateDraw
    \/ AddRecipient
    \/ RemoveRecipient

SpecPipeline == InitPipeline /\ [][NextPipeline]_vars

\* the step changes nothing the guild keeps, saves nothing and sends nothing
NothingHappened ==
    /\ UNCHANGED <<users, donationDraws, config, memberRoles>>
    /\ ~last'.saved
    /\ last'.sent = 0

\* neither the text of the message nor any provider gives a price
NoUsdValue(msg, feed) ==
    /\ ~Truthy(extractPriceFromTipMessage(msg))
    /\ \A i \in 1..3 : feed[i] = THROWN \/ feed[i] = NULL \/ feed[i] <= 0

\* C9: a donation for which neither the embedded price nor any provider
\* yields a USD value is abandoned: users, draws, config and roles stay as
\* they are, nothing is saved and nothing is sent.
C9_NoPriceNoChange ==
    [][(last'.op = "donation" /\ NoUsdValue(last'.msg, last'.feed)) => NothingHappened]_vars

\* C9 happens: a message that passed the policy, with a draw waiting, was
\* abandoned after all three providers had been asked
C9_AbandonedAfterProvidersReached ==
    /\ last.op = "donation" /\ last.stage = "noprice"
    /\ last.queried = 3
    /\ NoUsdValue(last.msg, last.feed)
    /\ last.msg.match /\ last.msg.sender \in Members
    /\ DOMAIN donationDraws # {}

\* the recipient of the message is on the allow-list: some string entry names
\* the same id once mention markup is stripped from both
OnAllowList(cfg, recipient) ==
    \E i \in 1..Len(cfg.allowedRecipients) :
        /\ cfg.allowedRecipients[i].isString
        /\ Clean(cfg.allowedRecipients[i].text) = Clean(recipient)

\* the message is outside the policy of the guild
OutsidePolicy(cfg, msg) ==
    \/ ~msg.match
    \/ ~OnAllowList(cfg, msg.recipient)
    \/ ToUpperCase(msg.currency) \notin AcceptedCurrencies(cfg)

\* C10: a message that matches no grammar, or whose recipient is not on the
\* allow-list (an empty list included), or whose currency is not accepted, is
\* dropped before any price provider is asked, with users, draws and config
\* unchanged, nothing saved and nothing sent.
C10_OutsidePolicyDropped ==
    [][(last'.op = "donation" /\ OutsidePolicy(config, last'.msg)) =>
           (last'.queried = 0 /\ NothingHappened)]_vars

\* C10 happens: the guild has allowed recipients and a draw, a provider has a
\* price, and a message for another recipient or in another currency was dropped
C10_DroppedWithPriceAtHandReached ==
    /\ last.op = "donation" /\ last.stage \in {"recipient", "currency"}
    /\ Len(config.allowedRecipients) > 0
    /\ last.feed[1] = 1
    /\ last.msg.sender \in Members
    /\ DOMAIN donationDraws # {}

\* the message reaches price resolution and its text holds a "$<number>" token
PricedInText(cfg, msg) == ~OutsidePolicy(cfg, msg) /\ Len(msg.dollars) > 0

\* the number of the first "$<number>" token of the text
FirstDollar(msg) == parseFloat(msg.dollars[1])

\* C13: whenever the text of a message holds a "$<number>" token, the USD
\* value of the donation is the number of the first such token, whatever the
\* quantity, and no price provider is asked; this for every value of the
\* number, 0 included.
C13_EmbeddedPriceIsAuthoritative ==
    [][(last'.op = "donation" /\ PricedInText(config, last'.msg)) =>
          /\ last'.queried = 0
          /\ last'.stage \in {"done", "nosender"} => last'.usd = FirstDollar(last'.msg)
    ]_vars

\* the message reaches price resolution and its text holds no "$<number>" token
Unpriced(cfg, msg) == ~OutsidePolicy(cfg, msg) /\ Len(msg.dollars) = 0

\* provider k answers with a positive price
Answers(feed, k) == feed[k] # THROWN /\ feed[k] # NULL /\ feed[k] > 0

\* the quantity of the tip
Quantity(msg) == parseFloat(msg.amount)

\* C14: without an embedded price the providers are asked in the order
\* CoinGecko, CoinPaprika, CoinMarketCap, each only after those before it
\* failed (threw, or gave no positive price); the lookup gives the first
\* positive price times the quantity, a failing provider never ends the
\* donation, and the lookup gives no value exactly when all three fail, in
\* which case the donation is abandoned.
C14_ProvidersAskedInOrder ==
    [][(last'.op = "donation" /\ Unpriced(config, last'.msg)) =>
          /\ \A k \in 1..3 :
                (Answers(last'.feed, k) /\ \A j \in 1..(k - 1) : ~Answers(last'.feed, j)) =>
                    /\ last'.queried = k
                    /\ last'.usd = last'.feed[k] * Quantity(last'.msg)
                    /\ last'.usd # NULL
          /\ (\A k \in 1..3 : ~Answers(last'.feed, k)) =>
                    /\ last'.queried = 3
                    /\ last'.usd = NULL
                    /\ NothingHappened
    ]_vars

\* C14 happens: CoinGecko had no price, CoinPaprika answered $2 a coin, and
\* the tip of 2 coins was credited as $4 without CoinMarketCap being asked
C14_SecondProviderAnsweredReached ==
    /\ last.op = "donation" /\ last.stage = "done"
    /\ Len(last.msg.dollars) = 0
    /\ last.feed[1] = NULL /\ last.feed[2] = 2 /\ last.feed[3] = 1
    /\ last.queried = 2
    /\ last.usd = 4
    /\ "u1" \in DOMAIN users /\ users["u1"].totalDonated = 4

\* the amount token of the message does not read as a positive number
NoPositiveAmount(msg) == Quantity(msg) = NaN \/ Quantity(msg) <= 0

\* C17: a message whose amount token does not parse to a positive finite
\* number ("0", "0.00", ".") counts as matching no grammar: it changes
\* nothing, also when its text holds a "$" price and its recipient and
\* currency are allowed.
C17_NonPositiveAmountIsNoMatch ==
    [][(last'.op = "donation" /\ last'.msg.match /\ NoPositiveAmount(last'.msg)) =>
          NothingHappened]_vars

\* toLowerCase on the letters of the model
ToLowerCase(s) == [i \in 1..Len(s) |-> IF s[i] = "B" THEN "b" ELSE s[i]]

\* a.includes(r)
IsInfix(r, a) == \E i \in 0..(Len(a) - Len(r)) : SubSeq(a, i + 1, i + Len(r)) = r

\* the recipient matches a string entry of the allow-list once mention markup
\* is stripped and case is ignored: the two are equal or one contains the other
LooselyListed(cfg, recipient) ==
    \E i \in 1..Len(cfg.allowedRecipients) :
        /\ cfg.allowedRecipients[i].isString
        /\ LET a == ToLowerCase(Clean(cfg.allowedRecipients[i].text))
               r == ToLowerCase(Clean(recipient))
           IN a = r \/ IsInfix(a, r) \/ IsInfix(r, a)

\* C18: a recipient is eligible exactly when, with "@", "<", ">", "!" removed
\* and case ignored, it equals, contains or is contained in a string entry of
\* allowedRecipients ("bob" on the list allows "bobby", "Bob" allows "bob").
C18_RecipientMatchedLoosely ==
    [][(last'.op = "donation" /\ last'.msg.match /\ Len(config.allowedRecipients) > 0) =>
          (last'.stage # "recipient" <=> LooselyListed(config, last'.msg.recipient))]_vars

----------------------------------------------------------------------------
(* SpecRecipients: the recipient policy on an allow-list that may hold      *)
(* entries that are not strings.  add_recipient only pushes strings; the    *)
(* objects that clean_recipients exists to remove are there from the start, *)
(* in a document written before.                                            *)

Blank == <<" ">>

\* the allow-lists a stored document may hold
StoredLists ==
    LET entries == {StringEntry(BobMention), StringEntry(Blank), ObjectEntry(Bob)}
    IN {<<>>} \cup {<<e>> : e \in entries} \cup {<<e, f>> : e \in entries, f \in entries}

InitRecipients ==
    /\ InitDocument
    /\ config \in {c \in FreshConfig(StoredLists) : c.vipRoleId = NoRole}
    /\ watched = {"donation", "clean_recipients"}

RecipientsDonation ==
    /\ TotalDonations < MaxDonations
    /\ \E recipient \in {Bob, Eve}, currency \in {"ltc", "xyz"} :
          handleTipccDonation(Message(TRUE, "u1", recipient, Numeric(2), currency, Dollar(2)),
                              NoFeed, "none")

RecipientsAdd ==
    /\ Len(config.allowedRecipients) < MaxRecipients
    /\ \E recipient \in {BobMention, Eve} : handleAddRecipient(recipient)

CleanRecipients == handleCleanRecipients

NextRecipients ==
    \/ RecipientsDonation
    \/ RecipientsAdd
    \/ RemoveRecipient
    \/ CleanRecipients
    \/ PipelineCreateDraw

SpecRecipients == InitRecipients /\ [][NextRecipients]_vars

\* the string entries of the allow-list, in their order
StringEntries(cfg) == SelectSeq(cfg.allowedRecipients, LAMBDA e : e.isString)

\* the recipient is eligible by the string entries alone
ListedAmongStrings(cfg, recipient) ==
    \E i \in 1..Len(StringEntries(cfg)) :
        Clean(StringEntries(cfg)[i].text) = Clean(recipient)

\* C19: entries of allowedRecipients that are not strings never make a
\* recipient eligible and never end the check early: the message passes the
\* recipient check exactly when the string entries alone make its recipient
\* eligible, and then goes on to the currency check and the pipeline.
C19_NonStringEntriesIgnored ==
    [][(last'.op = "donation" /\ last'.msg.match /\ Len(config.allowedRecipients) > 0) =>
          /\ last'.stage = "recipient" <=> ~ListedAmongStrings(config, last'.msg.recipient)
          /\ ListedAmongStrings(config, last'.msg.recipient) =>
                last'.stage \in {"currency", "noprice", "nosender", "done"}
    ]_vars

\* C19 happens: the list holds an object named like the recipient of the
\* message and no string for it, and the message was dropped at the
\* recipient check
C19_ObjectNamedLikeRecipientReached ==
    /\ last.op = "donation" /\ last.stage = "recipient"
    /\ \E i \in 1..Len(config.allowedRecipients) :
          /\ ~config.allowedRecipients[i].isString
          /\ config.allowedRecipients[i].text = last.msg.recipient

\* the entry is a string with a character that is not a blank
NonBlankString(e) == e.isString /\ \E i \in 1..Len(e.text) : e.text[i] # " "

\* C30: after clean_recipients the list holds exactly the entries of the
\* list before that are strings with non-blank content, in the order they had;
\* the removed count reported is the length before minus the length after;
\* clean_recipients run again right away changes nothing and reports 0.
C30_CleanKeepsNonBlankStrings ==
    [][last'.op = "clean_recipients" =>
          /\ config'.allowedRecipients = SelectSeq(config.allowedRecipients, NonBlankString)
          /\ last'.count = Len(config.allowedRecipients) - Len(config'.allowedRecipients)
          /\ last.op = "clean_recipients" => (config' = config /\ last'.count = 0)
    ]_vars

\* C30 happens: clean_recipients removed one entry of a list of two and kept
\* the string naming the recipient
C30_RemovedOneKeptOneReached ==
    /\ last.op = "clean_recipients" /\ last.count = 1
    /\ config.allowedRecipients = <<StringEntry(BobMention)>>

----------------------------------------------------------------------------
(* SpecConcurrent: assign_entries for a role waits for the member list      *)
(* while other events of the guild are handled.  One draw, at most          *)
(* MaxPending suspended handlers.                                           *)

InitConcurrent ==
    /\ InitDocument
    /\ config \in {c \in FreshConfig({<<StringEntry(BobMention)>>}) : c.vipRoleId = NoRole}
    /\ watched = {}

ConcurrentCreateDraw ==
    /\ now \notin DOMAIN donationDraws
    /\ handleCreateDraw("Draw", "Prize", 2, {}, 3, {}, {})

ConcurrentEditDraw ==
    \E drawId \in DrawIds, v \in BOOLEAN :
        handleEditDraw(drawId, [NoOptions EXCEPT !.active = {v}])

AssignEntriesSuspend ==
    /\ Cardinality(pending) < MaxPending
    /\ \E drawId \in DrawIds, handout \in Handouts :
          handleAssignEntriesSuspend(VipRole, drawId, 1, handout)

AssignEntriesResume == \E p \in pending : handleAssignEntriesResume(p)

NextConcurrent ==
    \/ ConcurrentCreateDraw
    \/ ConcurrentEditDraw
    \/ Donation
    \/ AssignEntries
    \/ AssignEntriesSuspend
    \/ AssignEntriesResume
    \/ SelectWinner

SpecConcurrent == InitConcurrent /\ [][NextConcurrent]_vars

\* C2: under any interleaving of donations, assign_entries, edit_draw and
\* select_winner, a step changes the entries ledger of a draw only if the
\* draw is active when the step is taken; no entry is added to a draw whose
\* winner has been selected.
C2_LedgerChangesOnlyWhileActive ==
    [][\A d \in DOMAIN donationDraws :
           (d \in DOMAIN donationDraws' /\ donationDraws'[d].entries # donationDraws[d].entries)
               => donationDraws[d].active
    ]_vars

----------------------------------------------------------------------------
(* SpecRewards: donations with the reward steps at work.  The admins set    *)
(* up two donor tiers, one draw takes entries, and in every run of the      *)
(* donation handler one outbound Discord call may throw.                    *)

MaxRewarded == 2      \* donation records kept in the whole guild under SpecRewards, SpecRace

Bronze == "bronze"
Silver == "silver"

Hundred == <<"1", "0", "0">>

InitRewards ==
    /\ InitDocument
    /\ config \in {c \in FreshConfig({<<StringEntry(BobMention)>>}) : c.vipRoleId = NoRole}
    /\ watched = {"donation"}

\* tips of 2 LTC to the recipient, worth $2 or $100 by the text of the message
RewardsDonation ==
    /\ TotalDonations < MaxRewarded
    /\ \E sender \in Members, dollars \in {Dollar(2), <<Hundred>>},
          fault \in Faults :
          handleTipccDonation(Message(TRUE, sender, Bob, Numeric(2), "ltc", dollars),
                              NoFeed, fault)

\* the admins add Bronze from $2 and Silver from $5, remove Bronze, or reset
ConfigureDonorRoles ==
    \/ handleConfigureDonorRoles("add", Bronze, 2, NULL)
    \/ handleConfigureDonorRoles("add", Silver, 5, NULL)
    \/ handleConfigureDonorRoles("remove", Bronze, NULL, NULL)
    \/ handleConfigureDonorRoles("reset", NoRole, NULL, NULL)

RewardsCreateDraw ==
    /\ now \notin DOMAIN donationDraws
    /\ handleCreateDraw("Draw", "Prize", 2, {}, 0, {}, {})

NextRewards ==
    \/ RewardsDonation
    \/ ConfigureDonorRoles
    \/ RewardsCreateDraw

SpecRewards == InitRewards /\ [][NextRewards]_vars

\* the step is a donation in which an outbound call threw
DonationRaised == last'.op = "donation" /\ last'.raised # "none"

\* the store holds nothing of the donation
NoneOfIt == UNCHANGED <<users, donationDraws, config>>

\* the store holds all of the donation of v by s: the total, the record, the
\* streak, every achievement the new record earns, and on ledger and record
\* alike the prescribed entries of every eligible draw
AllOfIt(s, v) ==
    /\ s \in DOMAIN users'
    /\ LET old == WithUser(users, s)[s]
           new == users'[s]
       IN /\ new.totalDonated = old.totalDonated + v
          /\ Len(new.donations) = Len(old.donations) + 1
          /\ new.donations[Len(new.donations)].amount = v
          /\ new.streaks.lastDonation = now
          /\ \A k \in 1..Len(AchievementKeys) :
                Earned(AchievementKeys[k], new) => Includes(new.achievements, AchievementKeys[k])
    /\ DOMAIN donationDraws' = DOMAIN donationDraws
    /\ \A d \in DOMAIN donationDraws :
          LET g == IF FullyEligible(d, s, v) THEN PrescribedGrant(donationDraws[d], v) ELSE 0
          IN /\ donationDraws'[d] = [donationDraws[d] EXCEPT !.entries[s] = Plus(@, g)]
             /\ UserEntries(users', s, d) = Plus(UserEntries(users, s, d), g)
    /\ config' = config

\* C11 as stated: when an outbound call throws while a donation is processed
\* (a role removal or addition or a channel send of the reward steps
\* included), the handler ends in its catch with nothing further done, and
\* the store holds none or all of the donation.
C11_ErrorAbortsProcessing ==
    [][DonationRaised =>
          /\ last'.stage = "caught"
          /\ NoneOfIt \/ AllOfIt(last'.sender, last'.usd)]_vars

\* C11 amended: when an outbound call throws while a donation is processed,
\* the store holds none or all of the donation, never part of it; a throw
\* inside a reward step ends that step only.
C11_StoreHoldsNoneOrAll ==
    [][DonationRaised => (NoneOfIt \/ AllOfIt(last'.sender, last'.usd))]_vars

\* C11 happens: the first achievement notice threw in a donation that earned
\* two achievements and entries of a draw
C11_NoticeThrewReached ==
    /\ last.op = "donation" /\ last.raised = "achievement"
    /\ Len(users[last.sender].achievements) >= 2
    /\ \E d \in DOMAIN donationDraws : last.granted[d] > 0


\* C15: a donation runs parse, policy, price, allocation and rewards, save,
\* notification in this order: no confirmation, role-upgrade message or
\* achievement notice is sent before the changes of the donation are saved.
C15_NothingSentBeforeSave ==
    [][(last'.op = "donation" /\ last'.saved) => last'.early = 0]_vars

\* the donation of the step passed parse, policy, price and sender lookup
PassedEveryStage ==
    /\ last'.op = "donation"
    /\ ~OutsidePolicy(config, last'.msg)
    /\ Truthy(last'.usd)
    /\ last'.msg.sender \in Members

\* C16: every donation that passes parse, policy, price and sender lookup
\* adds exactly its USD value to users[sender].totalDonated and appends
\* exactly one record {amount, currency, originalAmount, timestamp,
\* recipient} to the donations of the sender, whether or not a draw grants
\* entries; the record of the user is created by the first such donation.
C16_DonationIsRecorded ==
    [][PassedEveryStage =>
          LET s == last'.msg.sender
              old == WithUser(users, s)[s]
          IN /\ s \in DOMAIN users'
             /\ users'[s].totalDonated = old.totalDonated + last'.usd
             /\ users'[s].donations =
                    Append(old.donations,
                           [amount |-> last'.usd,
                            currency |-> last'.msg.currency,
                            originalAmount |-> Quantity(last'.msg),
                            timestamp |-> now,
                            recipient |-> last'.msg.recipient])
             /\ \A u \in DOMAIN users \ {s} : u \in DOMAIN users' /\ users'[u] = users[u]
    ]_vars

\* C16 happens: with no draw to grant entries, a second donation of the same
\* member was added to the total and to the list
C16_SecondRecordWithoutEntriesReached ==
    /\ last.op = "donation" /\ last.stage = "done"
    /\ DOMAIN donationDraws = {}
    /\ Len(users[last.sender].donations) = 2
    /\ users[last.sender].totalDonated = 102
    /\ last.usd = 100

----------------------------------------------------------------------------
(* SpecRace: donation events of one guild handled while another donation    *)
(* handler waits at its price lookup.  One draw with room for two entries.  *)

InitRace ==
    /\ InitDocument
    /\ config \in {c \in FreshConfig({<<StringEntry(BobMention)>>}) : c.vipRoleId = NoRole}
    /\ watched = {"donation"}

RaceMessages == {Message(TRUE, sender, Bob, Numeric(2), "ltc", Dollar(2)) : sender \in Members}

RaceCreateDraw ==
    /\ now \notin DOMAIN donationDraws
    /\ handleCreateDraw("Draw", "Prize", 2, {}, 2, {}, {})

RaceDonation ==
    /\ TotalDonations + Cardinality(pending) < MaxRewarded
    /\ \E msg \in RaceMessages : handleTipccDonation(msg, NoFeed, "none")

DonationSuspend ==
    /\ TotalDonations + Cardinality(pending) < MaxRewarded
    /\ Cardinality(pending) < MaxPending
    /\ \E msg \in RaceMessages, handout \in Handouts :
          handleTipccDonationSuspend(msg, NoFeed, handout)

DonationResume == \E p \in pending : handleTipccDonationResume(p)

NextRace ==
    \/ RaceCreateDraw
    \/ RaceDonation
    \/ DonationSuspend
    \/ DonationResume
    \/ Tick

SpecRace == InitRace /\ [][NextRace]_vars

\* the donation records the store holds of user u
Recorded(us, u) == IF u \in DOMAIN us THEN us[u].donations ELSE <<>>

\* C12: when donation events of one guild are handled concurrently, what is
\* saved in the end is what handling them one after the other saves; so
\* every donation that is processed adds its record to the records the store
\* holds already, takes no entry from the ledgers, and leaves no draw above
\* its maxEntries.
C12_ConcurrentDonationsAllRecorded ==
    [][(last'.op = "donation" /\ last'.stage = "done") =>
          /\ \A u \in DOMAIN users :
                /\ u \in DOMAIN users'
                /\ Len(Recorded(users', u)) >= Len(Recorded(users, u))
                /\ SubSeq(Recorded(users', u), 1, Len(Recorded(users, u))) = Recorded(users, u)
          /\ \A d \in DOMAIN donationDraws :
                /\ d \in DOMAIN donationDraws'
                /\ \A u \in Members : donationDraws'[d].entries[u] >= donationDraws[d].entries[u]
                /\ Truthy(donationDraws'[d].maxEntries) =>
                      TotalEntries(donationDraws'[d]) <= donationDraws'[d].maxEntries
    ]_vars

----------------------------------------------------------------------------
(* SpecStreak: donations of the members a day, two days or more apart.      *)

MaxStreakTime == 5        \* the clock runs over 1..MaxStreakTime under SpecStreak
MaxStreakDonations == 3   \* donation records kept in the whole guild under SpecStreak

InitStreak ==
    /\ InitDocument
    /\ config \in {c \in FreshConfig({<<StringEntry(BobMention)>>}) : c.vipRoleId = NoRole}
    /\ watched = {"donation"}

\* a day passes
StreakTick ==
    /\ now < MaxStreakTime
    /\ now' = now + OneDayMs
    /\ last' = Idle
    /\ UNCHANGED <<users, donationDraws, config, memberRoles, watched, pending>>

StreakDonation ==
    /\ TotalDonations < MaxStreakDonations
    /\ \E sender \in Members :
          handleTipccDonation(Message(TRUE, sender, Bob, Numeric(2), "ltc", Dollar(2)),
                              NoFeed, "none")

NextStreak ==
    \/ StreakTick
    \/ StreakDonation

SpecStreak == InitStreak /\ [][NextStreak]_vars

\* C20: a donation at time now sets the streak of its sender: with no
\* earlier timestamp current becomes 1; with elapsed = now - lastDonation,
\* elapsed <= 24 h adds 1 to current, 24 h < elapsed <= 48 h leaves current
\* as it is, elapsed > 48 h sets current to 1; lastDonation is now afterwards
\* in every case.
C20_StreakFollowsElapsedTime ==
    [][PassedEveryStage =>
          LET s == last'.msg.sender
              old == WithUser(users, s)[s].streaks
              new == users'[s].streaks
              elapsed == now - old.lastDonation
          IN /\ new.lastDonation = now
             /\ old.lastDonation = NULL => new.current = 1
             /\ (old.lastDonation # NULL /\ elapsed <= OneDayMs) =>
                    new.current = old.current + 1
             /\ (old.lastDonation # NULL /\ OneDayMs < elapsed /\ elapsed <= 2 * OneDayMs) =>
                    new.current = old.current
             /\ (old.lastDonation # NULL /\ elapsed > 2 * OneDayMs) => new.current = 1
    ]_vars

\* C20 happens: a third donation, 48 h after the second, left a streak of 2
\* as it was
C20_GraceWindowKeptStreakReached ==
    /\ last.op = "donation" /\ last.stage = "done"
    /\ LET u == users[last.sender]
       IN /\ Len(u.donations) = 3
          /\ u.donations[3].timestamp - u.donations[2].timestamp = 2 * OneDayMs
          /\ u.streaks.current = 2
          /\ u.streaks.lastDonation = now

\* C21: after every donation of a user, streaks.longest >= streaks.current
\* >= 1, longest is not below what it was before the donation, and longest is
\* the greatest value current has taken: it starts at 0 and every donation
\* leaves it at the greater of its old value and the new current.
C21_LongestIsGreatestCurrent ==
    [][PassedEveryStage =>
          LET s == last'.msg.sender
              old == WithUser(users, s)[s].streaks
              new == users'[s].streaks
          IN /\ new.current >= 1
             /\ new.longest >= new.current
             /\ new.longest >= old.longest
             /\ new.longest = (IF new.current > old.longest THEN new.current ELSE old.longest)
             /\ old.longest >= old.current
    ]_vars

\* C21 happens: a donation more than 48 h after a streak of 2 set current
\* back to 1 and left longest at 2
C21_LongestAboveCurrentReached ==
    /\ last.op = "donation" /\ last.stage = "done"
    /\ LET u == users[last.sender]
       IN /\ Len(u.donations) = 3
          /\ u.donations[3].timestamp - u.donations[2].timestamp > 2 * OneDayMs
          /\ u.streaks.current = 1
          /\ u.streaks.longest = 2

----------------------------------------------------------------------------
(* SpecTiers: the donor tiers under every table the admins can set up with  *)
(* two roles: a first amount of 0, 2 or 5, with or without a last amount of *)
(* 3.  One member tips $2 or $3 at a time; in every run of the donation     *)
(* handler one outbound Discord call may throw.                             *)

MaxTierDonations == 2     \* donation records kept in the whole guild under SpecTiers

InitTiers ==
    /\ InitDocument
    /\ config \in {c \in FreshConfig({<<StringEntry(BobMention)>>}) : c.vipRoleId = NoRole}
    /\ watched = {"donation"}

TiersDonation ==
    /\ TotalDonations < MaxTierDonations
    /\ \E dollars \in {Dollar(2), Dollar(3)}, fault \in Faults :
          handleTipccDonation(Message(TRUE, "u1", Bob, Numeric(2), "ltc", dollars),
                              NoFeed, fault)

TiersConfigure ==
    \/ \E role \in {Bronze, Silver}, minAmount \in {0, 2, 5}, maxAmount \in {NULL, 3} :
          handleConfigureDonorRoles("add", role, minAmount, maxAmount)
    \/ handleConfigureDonorRoles("remove", Bronze, NULL, NULL)
    \/ handleConfigureDonorRoles("reset", NoRole, NULL, NULL)

NextTiers ==
    \/ TiersDonation
    \/ TiersConfigure

SpecTiers == InitTiers /\ [][NextTiers]_vars

\* the configured tiers whose range holds total: first amount <= total, and
\* last amount unset or >= total
Fitting(donorRoles, total) ==
    {i \in 1..Len(donorRoles) :
        /\ donorRoles[i].minAmount <= total
        /\ (donorRoles[i].maxAmount = NULL \/ donorRoles[i].maxAmount = 0
               \/ total <= donorRoles[i].maxAmount)}

\* the configured tiers whose role the member holds
HeldTiers(donorRoles, roles) == {i \in 1..Len(donorRoles) : donorRoles[i].id \in roles}

\* the greatest first amount among the tiers of I
Greatest(donorRoles, I) == MaxOf({donorRoles[i].minAmount : i \in I})

\* the roles of the tier table
TierRoles(donorRoles) == {donorRoles[i].id : i \in 1..Len(donorRoles)}

\* C22: donor tiers never downgrade.  When the tier computed for the new
\* total of the donor has a minAmount lower than or equal to that of the
\* highest configured tier role the member holds, the donation removes no
\* role and adds none; and no donation lowers the minAmount of the highest
\* tier role the member holds.
C22_TiersNeverDowngrade ==
    [][PassedEveryStage =>
          LET s == last'.msg.sender
              table == config.donorRoles
              held == HeldTiers(table, memberRoles[s])
              heldAfter == HeldTiers(table, memberRoles'[s])
              fits == Fitting(table, users'[s].totalDonated)
          IN /\ (fits # {} /\ held # {} /\ Greatest(table, fits) <= Greatest(table, held))
                    => memberRoles'[s] = memberRoles[s]
             /\ held # {} =>
                    (heldAfter # {} /\ Greatest(table, heldAfter) >= Greatest(table, held))
    ]_vars

\* C23: the tier selected for a new total is the one of greatest minAmount
\* among the tiers whose range holds the total; when there is one and its
\* minAmount is above that of the highest tier the member holds, or the
\* member holds none, then after a donation in which no call threw the member
\* holds the role of the selected tier and no other configured tier role.
C23_HighestFittingTierIsHeld ==
    [][(PassedEveryStage /\ last'.raised = "none") =>
          LET s == last'.msg.sender
              table == config.donorRoles
              held == HeldTiers(table, memberRoles[s])
              fits == Fitting(table, users'[s].totalDonated)
          IN (fits # {} /\ (held = {} \/ Greatest(table, fits) > Greatest(table, held))) =>
                \E i \in fits :
                    /\ table[i].minAmount = Greatest(table, fits)
                    /\ memberRoles'[s] \cap TierRoles(table) = {table[i].id}
    ]_vars

----------------------------------------------------------------------------
(* SpecAchievements: the achievements of a member who tips $2 or $500 up to *)
(* seven times in a day, and of members whose record comes from             *)
(* assign_entries or select_winner, with fix_achievements run in between.   *)

MaxAchDonations == 7      \* donation records kept in the whole guild under SpecAchievements
MaxAchTotal == 1012       \* the greatest totalDonated a donation starts from or leads to under SpecAchievements

FiveHundred == <<"5", "0", "0">>

InitAchievements ==
    /\ InitDocument
    /\ config \in {c \in FreshConfig({<<StringEntry(BobMention)>>}) : c.vipRoleId = NoRole}
    /\ watched = {"donation", "fix_achievements"}

AchievementsDonation ==
    /\ TotalDonations < MaxAchDonations
    /\ \E dollars \in {Dollar(2), <<FiveHundred>>}, fault \in {"none", "achievement"} :
          /\ WithUser(users, "u1")["u1"].totalDonated + parseFloat(dollars[1]) <= MaxAchTotal
          /\ handleTipccDonation(Message(TRUE, "u1", Bob, Numeric(2), "ltc", dollars),
                                 NoFeed, fault)

AchievementsCreateDraw ==
    /\ now \notin DOMAIN donationDraws
    /\ handleCreateDraw("Draw", "Prize", 2, {}, 2, {}, {})

\* assign_entries of one entry to a member
AchievementsAssignEntries ==
    \E user \in Members, drawId \in DrawIds : handleAssignEntries(user, NoRole, drawId, 1)

FixAchievements == \E targetUser \in Members \cup {NoUser} : handleFixAchievements(targetUser)

NextAchievements ==
    \/ AchievementsDonation
    \/ AchievementsCreateDraw
    \/ AchievementsAssignEntries
    \/ SelectWinner
    \/ FixAchievements

SpecAchievements == InitAchievements /\ [][NextAchievements]_vars

\* the keys of the catalog
CatalogKeys == {AchievementKeys[k] : k \in 1..Len(AchievementKeys)}

\* the keys a user record holds
KeysHeld(userData) == {userData.achievements[i] : i \in 1..Len(userData.achievements)}

\* C24: in every state reached by donations and fix_achievements runs, no
\* key is twice in the achievements of a user, and a key that is there stays
\* there.
C24_AchievementsAreASetThatGrows ==
    [][/\ \A u \in DOMAIN users' :
             \A i, j \in 1..Len(users'[u].achievements) :
                 users'[u].achievements[i] = users'[u].achievements[j] => i = j
       /\ \A u \in DOMAIN users :
             u \in DOMAIN users' /\ KeysHeld(users[u]) \subseteq KeysHeld(users'[u])
    ]_vars

\* C24 happens: fix_achievements ran on a user who held achievements from a
\* donation and had earned another since, and added exactly that one
C24_FixAddedToEarlierKeysReached ==
    /\ last.op = "fix_achievements" /\ last.count = 1
    /\ \E u \in DOMAIN users : Len(users[u].achievements) >= 2

\* the number of users referred by u: no handler registers a referral, the
\* referrals of every record stay as they were created
ReferralCount(us, u) == 0

\* the predicate of a catalog achievement, on the record of u
Deserved(key, us, u) ==
    \/ key = "first_steps" /\ us[u].totalDonated > 0
    \/ key = "generous_donor" /\ us[u].totalDonated >= 100
    \/ key = "big_spender" /\ us[u].totalDonated >= 500
    \/ key = "whale" /\ us[u].totalDonated >= 1000
    \/ key = "streak_master" /\ us[u].streaks.current >= 7
    \/ key = "community_pillar" /\ ReferralCount(us, u) >= 3
    \/ key = "lucky_winner" /\ us[u].wins > 0

\* the record of u holds every catalog achievement whose predicate is true of it
HoldsAllDeserved(us, u) ==
    \A key \in CatalogKeys : Deserved(key, us, u) => key \in KeysHeld(us[u])

C26_FixCompletesEveryRecord ==
    [][(last'.op = "fix_achievements" /\ last'.sender = NoUser) =>
          /\ \A u \in DOMAIN users' : HoldsAllDeserved(users', u)
          /\ \A u \in FixedUsers(users', NoUser) :
                fixUserAchievements(users'[u]).fixedCount = 0
    ]_vars

----------------------------------------------------------------------------
(* SpecWinner: select_winner on ids with and without a draw, on a draw that *)
(* is active or not and holds entries or none, with edit_draw switching the *)
(* draw off and on, before and after a winner was selected.  The clock does *)
(* not move here.                                                           *)

MaxSelected == 2      \* winners selected in the whole guild under SpecWinner

InitWinner ==
    /\ InitDocument
    /\ config \in {c \in FreshConfig({<<StringEntry(BobMention)>>}) : c.vipRoleId = NoRole}
    /\ watched = {"select_winner"}

WinnerCreateDraw ==
    /\ now \notin DOMAIN donationDraws
    /\ handleCreateDraw("Draw", "Prize", 2, {}, 3, {}, {})

\* assign_entries of one or two entries to a member
WinnerAssignEntries ==
    \E user \in Members, drawId \in DrawIds, entries \in {1, 2} :
        handleAssignEntries(user, NoRole, drawId, entries)

\* edit_draw with the option active
WinnerEditDraw ==
    \E drawId \in DrawIds, v \in BOOLEAN :
        handleEditDraw(drawId, [NoOptions EXCEPT !.active = {v}])

WinnerSelect ==
    /\ TotalWins < MaxSelected
    /\ \E drawId \in DrawIds, winnerId \in Members : handleSelectWinner(drawId, winnerId)

NextWinner ==
    \/ WinnerCreateDraw
    \/ WinnerAssignEntries
    \/ WinnerEditDraw
    \/ WinnerSelect
    \/ Donation

SpecWinner == InitWinner /\ [][NextWinner]_vars

\* the step is select_winner for draw last'.draw
SelectWinnerRan == last'.op = "select_winner"

\* wins of u, 0 without a record
Wins(us, u) == IF u \in DOMAIN us THEN us[u].wins ELSE 0

\* the draw asked for does not exist, is not active or holds no entries
CannotBeDrawn(d) ==
    \/ d \notin DOMAIN donationDraws
    \/ ~donationDraws[d].active
    \/ TotalEntries(donationDraws[d]) = 0

\* C27: select_winner on a draw whose entries add up to zero, on a draw that
\* is not active or on an id without a draw fails and leaves the store as it
\* was: active flag, winner and ledger of every draw and the wins of every
\* user are unchanged and nothing is saved.
C27_RejectedSelectChangesNothing ==
    [][(SelectWinnerRan /\ CannotBeDrawn(last'.draw)) =>
          /\ last'.stage \in {"notfound", "inactive", "noentries"}
          /\ ~last'.saved
          /\ UNCHANGED <<users, donationDraws, config>>
    ]_vars

\* C27 happens: select_winner was run on an active draw without entries
C27_NoEntriesReached ==
    /\ last.op = "select_winner" /\ last.stage = "noentries"
    /\ donationDraws[last.draw].active
    /\ donationDraws[last.draw].winner = NoUser

\* how often u is in the sequence seq
Occurrences(seq, u) == Cardinality({i \in 1..Len(seq) : seq[i] = u})

\* C28: a successful select_winner on an active draw sets the draw inactive,
\* sets its winner to a user with at least one entry in it, adds exactly 1 to
\* the wins of that user, and changes no wins of another user and no ledger;
\* the population sampled holds every user exactly entries[user] times out
\* of the total of the entries, so every user with an entry can win.
C28_WinnerDrawnByWeight ==
    /\ [][(SelectWinnerRan /\ last'.stage = "done") =>
             LET d == last'.draw
                 w == last'.sender
             IN /\ donationDraws[d].active
                /\ ~donationDraws'[d].active
                /\ donationDraws'[d].winner = w
                /\ donationDraws[d].entries[w] >= 1
                /\ Wins(users', w) = Wins(users, w) + 1
                /\ \A u \in Members \ {w} : Wins(users', u) = Wins(users, u)
                /\ DOMAIN donationDraws' = DOMAIN donationDraws
                /\ \A x \in DOMAIN donationDraws :
                      donationDraws'[x].entries = donationDraws[x].entries
       ]_vars
    /\ [](\A d \in DOMAIN donationDraws :
             (~CannotBeDrawn(d) /\ TotalEntries(donationDraws[d]) < Infinity) =>
                 /\ Len(weightedEntries(donationDraws[d])) = TotalEntries(donationDraws[d])
                 /\ \A u \in Members :
                       /\ Occurrences(weightedEntries(donationDraws[d]), u)
                              = donationDraws[d].entries[u]
                       /\ donationDraws[d].entries[u] >= 1 => u \in Candidates(donationDraws[d]))

\* C28 happens: the winner held one of three entries of the draw
C28_MinorityHolderWonReached ==
    /\ last.op = "select_winner" /\ last.stage = "done"
    /\ donationDraws[last.draw].entries[last.sender] = 1
    /\ TotalEntries(donationDraws[last.draw]) = 3
    /\ users[last.sender].wins = 1

\* C29: closing a draw is final.  Once select_winner has set the winner of a
\* draw, no later admin command or donation makes the draw active again or
\* changes its winner, and select_winner does not succeed on it again.
C29_ClosedDrawStaysClosed ==
    [][\A d \in DOMAIN donationDraws :
           donationDraws[d].winner # NoUser =>
               /\ d \in DOMAIN donationDraws'
               /\ ~donationDraws'[d].active
               /\ donationDraws'[d].winner = donationDraws[d].winner
               /\ ~(SelectWinnerRan /\ last'.stage = "done" /\ last'.draw = d)
    ]_vars

\* the draws whose winner field is u
DrawsWonBy(u) == {d \in DOMAIN donationDraws : donationDraws[d].winner = u}

\* C34: in every state reachable by create_draw, edit_draw, assign_entries,
\* donations and select_winner, users[u].wins equals, for every user u, the
\* number of draws whose winner field is u, so that each draw contributes at
\* most one win in total.
C34_WinsCountDrawsWon ==
    \A u \in Members : Wins(users, u) = Cardinality(DrawsWonBy(u))

----------------------------------------------------------------------------
(* SpecMessages: messages of every author reach execute of messageCreate.   *)
(* The texts are a tip of 2 LTC to the recipient the guild has set up,      *)
(* priced in the text, and a text no grammar reads; one draw waits for      *)
(* entries.                                                                 *)

MaxDelivered == 2

InitMessages ==
    /\ InitDocument
    /\ config \in {c \in FreshConfig({<<StringEntry(BobMention)>>}) : c.vipRoleId = NoRole}
    /\ watched = {"donation", "message"}

MessageTexts ==
    {Message(TRUE, sender, Bob, Numeric(2), "ltc", Dollar(d)) :
        sender \in Members, d \in {2, 5}}
    \cup {NoMessage}

MessageCreate ==
    /\ TotalDonations < MaxDelivered
    /\ \E author \in Authors, text \in MessageTexts :
          execute(From(author, text), NoFeed, "none")

NextMessages ==
    \/ MessageCreate
    \/ PipelineCreateDraw
    \/ Tick

SpecMessages == InitMessages /\ [][NextMessages]_vars

\* C31: a message is handed to donation processing if and only if its
\* author id is the id of the tip.cc bot.  Every message of tip.cc is
\* processed (and recorded when it passes every stage); a message of any
\* other author, bot or human, whatever its text, changes no state, saves
\* nothing and sends nothing.
C31_OnlyTipccIsProcessed ==
    [][last'.op \in {"donation", "message"} =>
          /\ (last'.msg.author.id = TipccBotId) <=> (last'.op = "donation")
          /\ last'.msg.author.id # TipccBotId => NothingHappened
          /\ (last'.msg.author.id = TipccBotId /\ PassedEveryStage) =>
                 TotalDonations' = TotalDonations + 1
    ]_vars

\* C31 happens: after tip.cc's message was recorded, the same text written by
\* a member was ignored
C31_MemberCopyIgnoredReached ==
    /\ last.op = "message" /\ last.stage = "ignored"
    /\ last.msg.match /\ ~last.msg.author.bot
    /\ TotalDonations = 1

----------------------------------------------------------------------------
(* SpecAdmin: the admin command is invoked by the owner and by both         *)
(* members, with the fetch of the member succeeding or failing.  u1 holds   *)
(* the role "vip", which setup may or may not make the admin role.          *)

Subcommands ==
    {"setup", "create_draw", "assign_entries", "add_recipient", "blacklist", "features"}

InitAdmin ==
    /\ InitDocument
    /\ config \in {c \in FreshConfig({<<>>}) : c.vipRoleId = NoRole}
    /\ watched = Subcommands \cup {"admin"}

\* the switch of execute, with the options the subcommand is given
handleSubcommand(caller, subcommand) ==
    \/ /\ subcommand = "setup"
       /\ \E isAdministrator \in BOOLEAN, adminRole \in {VipRole} :
             handleSetup(caller, isAdministrator, adminRole, {}, {"c1"})
    \/ /\ subcommand = "create_draw"
       /\ now \notin DOMAIN donationDraws
       /\ handleCreateDraw("Draw", "Prize", 2, {}, 2, {}, {})
    \/ /\ subcommand = "assign_entries"
       /\ \E user \in Members, drawId \in DrawIds :
             handleAssignEntries(user, NoRole, drawId, 1)
    \/ /\ subcommand = "add_recipient"
       /\ handleAddRecipient(BobMention)
    \/ /\ subcommand = "blacklist"
       /\ \E action \in {"add_user", "remove_user", "list"}, user \in {"u2", NoUser} :
             handleBlacklist(caller, action, user)
    \/ /\ subcommand = "features"
       /\ \E feature \in {"vipDraws", "view_all"}, enabled \in {{}, {FALSE}} :
             handleFeatures(feature, enabled)

Admin(caller, fetchFails, subcommand) ==
    executeAdmin(caller, fetchFails, handleSubcommand(caller, subcommand))

AdminCommand ==
    \E caller \in Callers, fetchFails \in BOOLEAN, subcommand \in Subcommands :
        Admin(caller, fetchFails, subcommand)

NextAdmin == AdminCommand

SpecAdmin == InitAdmin /\ [][NextAdmin]_vars

\* the caller is the owner or holds the role config.adminRoleId names
Entitled(caller) ==
    \/ caller = OWNER_ID
    \/ config.adminRoleId # NoRole /\ config.adminRoleId \in memberRoles[caller]

\* C32: no admin subcommand changes or saves any state when the invoking
\* user is neither the owner nor a holder of config.adminRoleId, in
\* particular when no adminRoleId is configured or the fetch of the member
\* fails: the permission check precedes every handler.
C32_AdminNeedsPermission ==
    [][\A caller \in Members, fetchFails \in BOOLEAN, subcommand \in Subcommands :
          (Admin(caller, fetchFails, subcommand) /\ (~Entitled(caller) \/ fetchFails))
              => (NothingHappened /\ last'.stage = "denied")
    ]_vars

\* C32 happens: with the admin role set up and a draw created, a command was
\* denied
C32_DeniedAfterSetupReached ==
    /\ last.op = "admin" /\ last.stage = "denied"
    /\ config.adminRoleId = VipRole
    /\ DOMAIN donationDraws # {}

----------------------------------------------------------------------------
(* SpecAssign: assign_entries with every kind of option, on a draw that     *)
(* create_draw made with or without a capacity and that edit_draw closes    *)
(* and reopens.  Both members hold the role "vip"; nobody holds "mod".      *)

InitAssign ==
    /\ users = << >>
    /\ donationDraws = << >>
    /\ memberRoles = [m \in Members |-> {VipRole}]
    /\ now = 1
    /\ last = Idle
    /\ pending = {}
    /\ config \in {c \in FreshConfig({<<>>}) : c.vipRoleId = NoRole}
    /\ watched = {"assign_entries"}

AssignCreateDraw ==
    /\ now \notin DOMAIN donationDraws
    /\ \E maxEntries \in {0, 3, 5} : handleCreateDraw("Draw", "Prize", 2, {}, maxEntries, {}, {})

AssignEditDraw ==
    \E drawId \in DrawIds, v \in BOOLEAN :
        handleEditDraw(drawId, [NoOptions EXCEPT !.active = {v}])

AssignRoles == {NoRole, VipRole, "mod"}
AssignCounts == {-1, 0, 1, 2}

AssignAssignEntries ==
    \E user \in Members \cup {NoUser}, role \in AssignRoles,
       drawId \in DrawIds, entries \in AssignCounts :
        handleAssignEntries(user, role, drawId, entries)

NextAssign ==
    \/ AssignCreateDraw
    \/ AssignEditDraw
    \/ AssignAssignEntries

SpecAssign == InitAssign /\ [][NextAssign]_vars

\* the members the options of assign_entries name
Named(user, role) ==
    IF user # NoUser THEN {user} ELSE {m \in Members : role \in memberRoles[m]}

\* the cases in which assign_entries is to reject
MustReject(user, role, drawId, entries) ==
    \/ drawId \notin DOMAIN donationDraws
    \/ ~donationDraws[drawId].active
    \/ entries <= 0
    \/ user = NoUser /\ role = NoRole
    \/ Named(user, role) = {}
    \/ TotalEntries(donationDraws[drawId]) + Cardinality(Named(user, role)) * entries
           > donationDraws[drawId].maxEntries

\* C33: assign_entries is all-or-nothing.  It either rejects and changes no
\* ledger and no user record (draw missing, draw inactive, entries <= 0,
\* neither user nor role given, no target users, or current total + targets
\* x entries > maxEntries), or it adds exactly the given number of entries
\* to every target user, on the ledger of the draw and on the entry map of
\* the user, and to nobody else.
C33_AssignIsAllOrNothing ==
    [][\A user \in Members \cup {NoUser}, role \in AssignRoles,
          drawId \in DrawIds, entries \in AssignCounts :
          handleAssignEntries(user, role, drawId, entries) =>
             IF MustReject(user, role, drawId, entries)
             THEN UNCHANGED <<users, donationDraws>> /\ ~last'.saved
             ELSE /\ last'.saved
                  /\ \A u \in Members :
                        LET given == IF u \in Named(user, role) THEN entries ELSE 0
                        IN /\ donationDraws'[drawId].entries[u]
                                 = donationDraws[drawId].entries[u] + given
                           /\ UserEntries(users', u, drawId)
                                 = UserEntries(users, u, drawId) + given
                           /\ u \notin Named(user, role) =>
                                 /\ (u \in DOMAIN users') = (u \in DOMAIN users)
                                 /\ u \in DOMAIN users => users'[u] = users[u]
                  /\ \A d \in DOMAIN donationDraws \ {drawId} :
                        donationDraws'[d] = donationDraws[d]
                  /\ [donationDraws'[drawId] EXCEPT !.entries = NoLedger]
                        = [donationDraws[drawId] EXCEPT !.entries = NoLedger]
    ]_vars

\* C33 happens: after both holders of the role were given one entry each,
\* two more entries for each of them did not fit and were rejected
C33_RoleGrantRejectedForSpaceReached ==
    /\ last.op = "assign_entries" /\ last.stage = "nospace"
    /\ \E d \in DOMAIN donationDraws :
          /\ donationDraws[d].maxEntries = 3
          /\ \A u \in Members : donationDraws[d].entries[u] = 1 /\ UserEntries(users, u, d) = 1

----------------------------------------------------------------------------
(* Properties of the user records, checked under SpecAchievements, where    *)
(* records are created by donations, assign_entries and select_winner.      *)

RECURSIVE SumOfAmounts(_)
SumOfAmounts(donations) ==
    IF donations = <<>> THEN 0
    ELSE SumOfAmounts(SubSeq(donations, 1, Len(donations) - 1))
            + donations[Len(donations)].amount

----------------------------------------------------------------------------
(* Frame properties, checked under SpecWinner: donations of both members    *)
(* meet a draw that assign_entries has filled, select_winner has closed and *)
(* edit_draw has reopened.                                                  *)

\* the draw without its ledger
Configuration(draw) == [draw EXCEPT !.entries = NoLedger]

\* C36: processing a donation from sender S leaves unchanged every other
\* user's record, every other user's count in every draw ledger, every
\* draw's configuration fields (name, reward, minAmount, maxAmount,
\* maxEntries, vipOnly, manualEntriesOnly, active, winner) and the guild
\* config.
C36_DonationTouchesOnlyItsSender ==
    [][\A S \in Members, embedded \in {1, 2, 5} :
          handleTipccDonation(Message(TRUE, S, Bob, Numeric(2), "ltc", Dollar(embedded)),
                              NoFeed, "none") =>
             /\ \A u \in DOMAIN users \ {S} : u \in DOMAIN users' /\ users'[u] = users[u]
             /\ DOMAIN users' \subseteq DOMAIN users \cup {S}
             /\ DOMAIN donationDraws' = DOMAIN donationDraws
             /\ \A d \in DOMAIN donationDraws :
                   /\ Configuration(donationDraws'[d]) = Configuration(donationDraws[d])
                   /\ \A u \in Members \ {S} :
                         donationDraws'[d].entries[u] = donationDraws[d].entries[u]
             /\ config' = config
    ]_vars

\* C36 happens: a donation was granted entries in a draw in which the other
\* member holds entries, beside a record of the other member
C36_GrantBesideOtherMemberReached ==
    \E S \in Members, d \in DOMAIN donationDraws :
        /\ S \in DOMAIN users /\ Len(users[S].donations) = 1
        /\ donationDraws[d].entries[S] = 1
        /\ UserEntries(users, S, d) = 1
        /\ \E u \in DOMAIN users \ {S} :
              donationDraws[d].entries[u] = 2 /\ users[u].donations = <<>>

----------------------------------------------------------------------------
(* SpecEdit: edit_draw with no option, with some and with all of them, for  *)
(* the draw created first and for ids no draw has.  assign_entries and      *)
(* select_winner fill the ledger and the winner that edit_draw has to       *)
(* leave alone; a second draw is created later and never edited.            *)

InitEdit ==
    /\ InitDocument
    /\ config \in {c \in FreshConfig({<<StringEntry(BobMention)>>}) : c.vipRoleId = NoRole}
    /\ watched = {"edit_draw"}

\* one value for every option, and the empty name
EveryOption ==
    [name |-> {"Raffle"}, reward |-> {"Gold"}, minAmount |-> {5}, maxAmount |-> {0},
     maxEntries |-> {1}, active |-> {FALSE}, manualEntries |-> {TRUE}, vipOnly |-> {TRUE}]

\* none, all, the texts, the numbers, the flags, and single options
EditOptions ==
    {NoOptions, EveryOption,
     [NoOptions EXCEPT !.name = {"Raffle"}],
     [NoOptions EXCEPT !.name = {""}, !.reward = {"Gold"}],
     [NoOptions EXCEPT !.minAmount = {5}, !.maxAmount = {0}, !.maxEntries = {1}],
     [NoOptions EXCEPT !.manualEntries = {TRUE}, !.vipOnly = {TRUE}],
     [NoOptions EXCEPT !.active = {FALSE}],
     [NoOptions EXCEPT !.active = {TRUE}]}

EditCreateDraw ==
    /\ now \notin DOMAIN donationDraws
    /\ handleCreateDraw("Draw", "Prize", 2, {}, 3, {}, {})

EditAssignEntries ==
    \E drawId \in DrawIds : handleAssignEntries("u1", NoRole, drawId, 1)

EditSelectWinner ==
    /\ TotalWins < MaxSelected
    /\ \E drawId \in DrawIds, winnerId \in Members : handleSelectWinner(drawId, winnerId)

EditEditDraw ==
    \E drawId \in DrawIds, opts \in EditOptions :
        /\ drawId = 1 \/ drawId \notin DOMAIN donationDraws
        /\ handleEditDraw(drawId, opts)

NextEdit ==
    \/ EditCreateDraw
    \/ EditAssignEntries
    \/ EditSelectWinner
    \/ EditEditDraw
    \/ Tick

SpecEdit == InitEdit /\ [][NextEdit]_vars

\* C37: edit_draw changes only the draw fields for which an option was
\* supplied (lastModified and modifiedBy apart): fields whose option is
\* omitted keep their value, the ledger and the winner of the draw are
\* unchanged, and no other draw and no user record changes; on an unknown
\* draw id nothing changes.
C37_EditChangesOnlySuppliedFields ==
    [][last'.op = "edit_draw" =>
          LET d == last'.draw
              o == last'.opts
              old == donationDraws[d]
              new == donationDraws'[d]
          IN /\ users' = users
             /\ config' = config
             /\ DOMAIN donationDraws' = DOMAIN donationDraws
             /\ \A e \in DOMAIN donationDraws \ {d} : donationDraws'[e] = donationDraws[e]
             /\ d \in DOMAIN donationDraws =>
                   /\ new.entries = old.entries
                   /\ new.winner = old.winner
                   /\ ~Supplied(o.name) => new.name = old.name
                   /\ ~Supplied(o.reward) => new.reward = old.reward
                   /\ ~Supplied(o.minAmount) => new.minAmount = old.minAmount
                   /\ ~Supplied(o.maxAmount) => new.maxAmount = old.maxAmount
                   /\ ~Supplied(o.maxEntries) => new.maxEntries = old.maxEntries
                   /\ ~Supplied(o.active) => new.active = old.active
                   /\ ~Supplied(o.manualEntries) => new.manualEntriesOnly = old.manualEntriesOnly
                   /\ ~Supplied(o.vipOnly) => new.vipOnly = old.vipOnly
             /\ d \notin DOMAIN donationDraws => ~last'.saved
    ]_vars

\* C37 happens: the draw that was made VIP-only and closed by a winner, with
\* entries in its ledger, was renamed by an edit_draw that supplied only the
\* name, beside a second draw
C37_RenamedDecidedDrawReached ==
    /\ last.op = "edit_draw" /\ last.stage = "done"
    /\ last.opts = [NoOptions EXCEPT !.name = {"Raffle"}]
    /\ donationDraws[1].name = "Raffle"
    /\ donationDraws[1].vipOnly
    /\ donationDraws[1].winner = "u1"
    /\ donationDraws[1].entries["u1"] = 2
    /\ 2 \in DOMAIN donationDraws

----------------------------------------------------------------------------
(* Creation of draws, checked under SpecLifecycle, where every event is     *)
(* handled within the same clock millisecond.                               *)

\* C38: create_draw always adds one new draw that is active, has an empty
\* ledger and no winner, and leaves every already existing draw (its
\* fields, ledger and winner) unchanged, for every pair of creation times,
\* two creations within the same clock millisecond included.
C38_CreateAddsOneDraw ==
    [][\A maxEntries \in {2, 3} :
          handleCreateDraw("Draw", "Prize", 2, {}, maxEntries, {}, {}) =>
             /\ \E d \in DrawIds \ DOMAIN donationDraws :
                   /\ DOMAIN donationDraws' = DOMAIN donationDraws \cup {d}
                   /\ donationDraws'[d].active
                   /\ donationDraws'[d].entries = NoLedger
                   /\ donationDraws'[d].winner = NoUser
             /\ \A e \in DOMAIN donationDraws : donationDraws'[e] = donationDraws[e]
    ]_vars

----------------------------------------------------------------------------
(* SpecToggles: donations of both members, one of them holding the VIP      *)
(* role, meet a draw that is VIP-only or open to all while the owner        *)
(* blacklists and unblacklists u1 and switches the features vipDraws and    *)
(* achievementSystem off and on.                                            *)

InitToggles ==
    /\ InitDocument
    /\ config \in {c \in FreshConfig({<<StringEntry(BobMention)>>}) : c.vipRoleId = VipRole}
    /\ watched = {"donation"}

TogglesDonation ==
    /\ TotalDonations < MaxDelivered
    /\ \E sender \in Members, embedded \in {2, 5} :
          handleTipccDonation(Message(TRUE, sender, Bob, Numeric(2), "ltc", Dollar(embedded)),
                              NoFeed, "none")

TogglesCreateDraw ==
    /\ now \notin DOMAIN donationDraws
    /\ \E vipOnly \in BOOLEAN : handleCreateDraw("Draw", "Prize", 2, {}, 5, {vipOnly}, {})

TogglesBlacklist ==
    \E action \in {"add_user", "remove_user"} : handleBlacklist(OWNER_ID, action, "u1")

TogglesFeatures ==
    \E feature \in {"vipDraws", "achievementSystem"}, enabled \in BOOLEAN :
        handleFeatures(feature, {enabled})

NextToggles ==
    \/ TogglesDonation
    \/ TogglesCreateDraw
    \/ TogglesBlacklist
    \/ TogglesFeatures

SpecToggles == InitToggles /\ [][NextToggles]_vars

\* what handleTipccDonation makes of the document db at time t when no
\* outbound call throws: the users, the draws and the entries granted
Outcome(db, roles, t, msg, feed) ==
    LET price == ResolvePrice(msg, feed)
        senderId == FindSender(msg.sender)
        dropped == \/ ~PassesPolicy(db.config, msg)
                   \/ Unavailable(price.value)
                   \/ senderId = NoUser
        r == Processed(db, roles, t, msg, price.value, senderId, "none")
    IN IF dropped
       THEN [users |-> db.users, donationDraws |-> db.donationDraws, granted |-> NoEntries]
       ELSE [users |-> r.users, donationDraws |-> r.donationDraws, granted |-> r.grant]

\* the configs that differ from cfg in globalBlacklist and featureToggles only
Variants(cfg, sender) ==
    {[cfg EXCEPT !.globalBlacklist = b, !.featureToggles = f] :
        b \in {{}, {[users |-> <<>>, roles |-> <<>>]},
               {[users |-> <<[id |-> sender, reason |-> "No reason provided",
                              addedBy |-> OWNER_ID, addedAt |-> 1]>>,
                 roles |-> <<>>]}},
        f \in {{}, {[k \in Features |-> TRUE]}, {[k \in Features |-> FALSE]}}}

----------------------------------------------------------------------------
(* The two evaluations of the achievements, compared under                  *)
(* SpecAchievements on every record a handler leaves and on every record a  *)
(* donation hands to the live evaluation.                                   *)

\* the keys the live evaluation appends to the record, whether or not its
\* first notice throws, and the keys the repair evaluation appends
LiveAppends(userData) ==
    {SubSeq(checkAndAssignAchievements(userData, fault).userData.achievements,
            Len(userData.achievements) + 1,
            Len(checkAndAssignAchievements(userData, fault).userData.achievements)) :
        fault \in {"none", "achievement"}}

RepairAppends(userData) ==
    SubSeq(fixUserAchievements(userData).userData.achievements,
           Len(userData.achievements) + 1,
           Len(fixUserAchievements(userData).userData.achievements))

====
